---- MODULE Spec2Model ----
(***************************************************************************)
(* Model of the IFRS extraction pipeline: the per-window extraction loops  *)
(* of extractDefinitions / extractFormulas / extractFunctions /            *)
(* extractClaims with their quality gates and dedup sets, the extraction   *)
(* windowers, the citation formatter and the unit validators.              *)
(*                                                                         *)
(* Strings are sequences of one-character strings, so that lower-casing,   *)
(* punctuation stripping and whitespace collapsing are computed as the     *)
(* code computes them.  Confidences are integer percentages.               *)
(***************************************************************************)
EXTENDS Integers, Sequences, FiniteSets, TLC

VARIABLES
    kind,        \* which extractor is running, or "none"
    documentId,  \* spans[0].documentId of the run
    numWindows,  \* windows.length
    i,           \* loop index of the window loop
    results,     \* results: units accumulated so far
    errors,      \* errors: window-level error entries
    seen,        \* seenDefinitions / seenFormulas
    response,    \* outcome of the model call of the window just processed
    nextId,      \* source of fresh ids (ulid)
    attempted,   \* windows for which the model was called, in call order
    pc,          \* position of the run: "call", "delay", "done", or "idle"
    wspans,      \* windower input: the span list
    wsize,       \* windower input: windowSize
    wout,        \* windower output, or None before the call
    cites,       \* citation formatter input
    cout,        \* citation formatter output, or None before the call
    func,        \* validator input: a FunctionDoc
    claim,       \* validator input: a Claim
    defn,        \* validator input: a Definition (def)
    vout,        \* validator output, or None before the call
    storedSpans, \* ids of the spans stored for the document (db.getSpans)
    extracted,   \* the units the extractors hand back for the document
    draftFiles,  \* temp/derived/<documentId>/<type>.jsonl, one unit per line
    db,          \* rows of the functions, claims and definitions tables
    report,      \* what the last validate command counted and printed
    ncmds,       \* number of commands run so far
    cpc,         \* position inside callClaude: "idle", "fetch", "backoff",
                 \* "pause", "returned" or "thrown"
    attempt,     \* attempt (loop variable of callClaude)
    lastError,   \* lastError of callClaude
    httpLog,     \* what the endpoint answered to each request of this call
    line,        \* classifier input: one trimmed line of the page text
    role,        \* classifier output, or None before the call
    runs,        \* the locals of each of the extraction runs in progress
    nextUlid,    \* source of fresh ids (ulid) shared by the runs in progress
    enriched,    \* what enrichDefinition returned for defn; empty before the call
    pdfText,     \* pdfData.text: the flat text of the document
    pageCount,   \* pdfData.numpages
    blocks,      \* the spans extractSpansFromText returned
    merged,      \* the spans mergeParagraphs returned
    ppc          \* position inside parsePDF: "idle", "text", "spans" or "merged"

vars ==
    <<kind, documentId, numWindows, i, results, errors, seen, response, nextId,
      attempted, pc, wspans, wsize, wout, cites, cout, func, claim, defn, vout,
      storedSpans, extracted, draftFiles, db, report, ncmds,
      cpc, attempt, lastError, httpLog, line, role, runs, nextUlid,
      enriched, pdfText, pageCount, blocks, merged, ppc>>

extractVars ==
    <<kind, documentId, numWindows, i, results, errors, seen, response, nextId,
      attempted, pc>>

windowVars ==
    <<wspans, wsize, wout>>

citeVars ==
    <<cites, cout>>

validateVars ==
    <<func, claim, defn, vout>>

cmdVars ==
    <<storedSpans, extracted, draftFiles, db, report, ncmds>>

callVars ==
    <<cpc, attempt, lastError, httpLog>>

roleVars ==
    <<line, role>>

runVars ==
    <<runs, nextUlid>>

parseVars ==
    <<enriched, pdfText, pageCount, blocks, merged, ppc>>

None ==
    "none"

----------------------------------------------------------------------------
(* Bounds *)

MaxWindows ==
    2

MaxDrafts ==
    2

MaxSpans ==
    4

MaxWindowSize ==
    3

MaxCitations ==
    4

MaxPage ==
    5

MaxSteps ==
    5

MaxStepNumber ==
    5

----------------------------------------------------------------------------
(* Strings as character sequences *)

UpperChars ==
    <<"A", "B", "C", "D", "E", "F", "G", "H", "I", "J", "K", "L", "M",
      "N", "O", "P", "Q", "R", "S", "T", "U", "V", "W", "X", "Y", "Z">>

LowerChars ==
    <<"a", "b", "c", "d", "e", "f", "g", "h", "i", "j", "k", "l", "m",
      "n", "o", "p", "q", "r", "s", "t", "u", "v", "w", "x", "y", "z">>

DigitChars ==
    <<"0", "1", "2", "3", "4", "5", "6", "7", "8", "9">>

Range(s) ==
    {s[k] : k \in DOMAIN s}

\* String.prototype.toLowerCase on one character
ToLowerChar(c) ==
    IF \E k \in DOMAIN UpperChars : UpperChars[k] = c
    THEN LowerChars[CHOOSE k \in DOMAIN UpperChars : UpperChars[k] = c]
    ELSE c

ToLowerCase(s) ==
    [k \in DOMAIN s |-> ToLowerChar(s[k])]

\* the regex class \w
IsWordChar(c) ==
    c \in Range(UpperChars) \cup Range(LowerChars) \cup Range(DigitChars) \cup {"_"}

\* the regex class \s
IsSpaceChar(c) ==
    c \in {" ", "\t", "\n", "\r"}

RECURSIVE DropLeadingSpace(_)
DropLeadingSpace(s) ==
    IF s # <<>> /\ IsSpaceChar(Head(s)) THEN DropLeadingSpace(Tail(s)) ELSE s

\* s.replace(/\s+/g, rep)
RECURSIVE ReplaceSpaceRuns(_, _)
ReplaceSpaceRuns(s, rep) ==
    IF s = <<>> THEN <<>>
    ELSE IF IsSpaceChar(Head(s))
         THEN rep \o ReplaceSpaceRuns(DropLeadingSpace(Tail(s)), rep)
         ELSE <<Head(s)>> \o ReplaceSpaceRuns(Tail(s), rep)

RECURSIVE DropTrailingSpace(_)
DropTrailingSpace(s) ==
    IF s # <<>> /\ IsSpaceChar(s[Len(s)])
    THEN DropTrailingSpace(SubSeq(s, 1, Len(s) - 1))
    ELSE s

\* String.prototype.trim
Trim(s) ==
    DropTrailingSpace(DropLeadingSpace(s))

\* String.prototype.includes
Includes(s, sub) ==
    \E k \in 0..(Len(s) - Len(sub)) : SubSeq(s, k + 1, k + Len(sub)) = sub

\* Array.prototype.includes
ArrayIncludes(a, x) ==
    \E k \in DOMAIN a : a[k] = x

----------------------------------------------------------------------------
(* Configuration: confidence thresholds, in percent *)

ConfidenceDefinitions ==
    85

ConfidenceClaims ==
    80

ConfidenceFunctions ==
    75

----------------------------------------------------------------------------
(* Definitions extractor: slug, alias normalisation, enrichment *)

\* keeps [\w\s-], i.e. .replace(/[^\w\s-]/g, '')
KeepSlugChar(c) ==
    IsWordChar(c) \/ IsSpaceChar(c) \/ c = "-"

createTermSlug(term) ==
    Trim(ReplaceSpaceRuns(SelectSeq(ToLowerCase(term), KeepSlugChar), <<"-">>))

KeepAliasChar(c) ==
    IsWordChar(c) \/ IsSpaceChar(c)

normalizeAliases(aliases) ==
    [k \in DOMAIN aliases |->
        Trim(ReplaceSpaceRuns(SelectSeq(ToLowerCase(aliases[k]), KeepAliasChar), <<" ">>))]

KwProfit ==
    <<"p", "r", "o", "f", "i", "t">>

KwMargin ==
    <<"m", "a", "r", "g", "i", "n">>

KwRatio ==
    <<"r", "a", "t", "i", "o">>

KwReturn ==
    <<"r", "e", "t", "u", "r", "n">>

KwRevenue ==
    <<"r", "e", "v", "e", "n", "u", "e">>

KwIncome ==
    <<"i", "n", "c", "o", "m", "e">>

KwAsset ==
    <<"a", "s", "s", "e", "t">>

KwProfitability ==
    <<"p", "r", "o", "f", "i", "t", "a", "b", "i", "l", "i", "t", "y">>

KwProfitable ==
    <<"p", "r", "o", "f", "i", "t", "a", "b", "l", "e">>

KwNetIncome ==
    <<"n", "e", "t", " ", "i", "n", "c", "o", "m", "e">>

TagFinancialMetrics ==
    "financial-metrics"

TagProfitability ==
    "profitability"

\* variant: the tag is appended without looking for it first
PushTagAlways(tags, cond, tag) ==
    IF cond THEN Append(tags, tag) ELSE tags

PushTag(tags, cond, tag) ==
    IF cond /\ ~ArrayIncludes(tags, tag) THEN Append(tags, tag) ELSE tags

DefinitionTags(def) ==
    LET defText == ToLowerCase(def.definition)
        termText == ToLowerCase(def.term)
        t1 == PushTag(def.tags,
                  \/ Includes(termText, KwProfit) \/ Includes(termText, KwMargin)
                  \/ Includes(termText, KwRatio) \/ Includes(termText, KwReturn)
                  \/ Includes(defText, KwProfit) \/ Includes(defText, KwRevenue)
                  \/ Includes(defText, KwIncome) \/ Includes(defText, KwAsset),
                  TagFinancialMetrics)
    IN  PushTag(t1,
                  \/ Includes(termText, KwMargin) \/ Includes(termText, KwProfitability)
                  \/ Includes(defText, KwProfitability) \/ Includes(defText, KwProfitable),
                  TagProfitability)

\* {...def, id: ulid(), documentId, term_slug, aliases_norm, tags}
enrichDefinition(def, docId, id) ==
    [term |-> def.term, definition |-> def.definition, aliases |-> def.aliases,
     span_ids |-> def.span_ids, confidence |-> def.confidence,
     id |-> id, documentId |-> docId,
     term_slug |-> createTermSlug(def.term),
     aliases_norm |-> normalizeAliases(def.aliases),
     tags |-> DefinitionTags(def)]

\* DefinitionSchema
DefinitionSchemaOk(d) ==
    /\ Len(d.term) <= 120
    /\ Len(d.definition) <= 400
    /\ Len(d.span_ids) >= 1 /\ Len(d.span_ids) <= 3
    /\ d.confidence >= 0 /\ d.confidence <= 100

\* the quality gates of the definitions filter
DefinitionGates(d) ==
    /\ ~(d.confidence < ConfidenceDefinitions)
    /\ ~(Len(d.span_ids) < 1 \/ Len(d.span_ids) > 3)
    /\ ~(Len(d.definition) > 400)

DefinitionDedupKey(d, docId) ==
    <<docId, createTermSlug(d.term)>>

\* variant: the key is never recorded in the seen-set
RECURSIVE DefinitionFilterNoAdd(_, _, _, _)
DefinitionFilterNoAdd(drafts, docId, seenSet, kept) ==
    IF drafts = <<>> THEN [kept |-> kept, seen |-> seenSet]
    ELSE LET d == Head(drafts)
             key == DefinitionDedupKey(d, docId)
         IN  IF ~DefinitionGates(d) \/ key \in seenSet
             THEN DefinitionFilterNoAdd(Tail(drafts), docId, seenSet, kept)
             ELSE DefinitionFilterNoAdd(Tail(drafts), docId, seenSet, Append(kept, d))

\* variant: a later draft of the same response replaces the kept one
RECURSIVE DefinitionFilterLastWins(_, _, _, _)
DefinitionFilterLastWins(drafts, docId, seenSet, kept) ==
    IF drafts = <<>> THEN [kept |-> kept, seen |-> seenSet]
    ELSE LET d == Head(drafts)
             key == DefinitionDedupKey(d, docId)
             hit == {k \in DOMAIN kept : DefinitionDedupKey(kept[k], docId) = key}
         IN  IF ~DefinitionGates(d) \/ (key \in seenSet /\ hit = {})
             THEN DefinitionFilterLastWins(Tail(drafts), docId, seenSet, kept)
             ELSE IF key \in seenSet
             THEN DefinitionFilterLastWins(Tail(drafts), docId, seenSet,
                      [k \in DOMAIN kept |-> IF k \in hit THEN d ELSE kept[k]])
             ELSE DefinitionFilterLastWins(Tail(drafts), docId, seenSet \cup {key},
                                           Append(kept, d))

\* variant: the key is recorded before the quality gates are applied
RECURSIVE DefinitionFilterKeyFirst(_, _, _, _)
DefinitionFilterKeyFirst(drafts, docId, seenSet, kept) ==
    IF drafts = <<>> THEN [kept |-> kept, seen |-> seenSet]
    ELSE LET d == Head(drafts)
             key == DefinitionDedupKey(d, docId)
         IN  IF key \in seenSet
             THEN DefinitionFilterKeyFirst(Tail(drafts), docId, seenSet, kept)
             ELSE IF ~DefinitionGates(d)
             THEN DefinitionFilterKeyFirst(Tail(drafts), docId, seenSet \cup {key}, kept)
             ELSE DefinitionFilterKeyFirst(Tail(drafts), docId, seenSet \cup {key},
                                           Append(kept, d))

\* definitions.filter(...): returns the kept drafts and the grown seen-set
RECURSIVE DefinitionFilter(_, _, _, _)
DefinitionFilter(drafts, docId, seenSet, kept) ==
    IF drafts = <<>> THEN [kept |-> kept, seen |-> seenSet]
    ELSE LET d == Head(drafts)
             key == DefinitionDedupKey(d, docId)
         IN  IF ~DefinitionGates(d) \/ key \in seenSet
             THEN DefinitionFilter(Tail(drafts), docId, seenSet, kept)
             ELSE DefinitionFilter(Tail(drafts), docId, seenSet \cup {key},
                                   Append(kept, d))

\* .map(def => enrichDefinition(def, documentId)), ids drawn in order
StampDefinitions(kept, docId, firstId) ==
    [k \in DOMAIN kept |-> enrichDefinition(kept[k], docId, firstId + k - 1)]

----------------------------------------------------------------------------
(* Formulas extractor *)

\* the first 16 hex digits of the SHA-256 digests of the expressions that occur
Sha256Hex16(str) ==
    (<<"a", "=", "b">> :> "42144f3939c3ffbb" @@
     <<"c", "=", "d">> :> "7c5817e103f94590")[str]

IsNotSpaceChar(c) ==
    ~IsSpaceChar(c)

\* expression.toLowerCase().replace(/\s+/g, '')
NormalizeExpression(expression) ==
    SelectSeq(ToLowerCase(expression), IsNotSpaceChar)

\* createHash('sha256').update(...).digest('hex').substring(0, 16)
createExpressionHash(expression) ==
    Sha256Hex16(NormalizeExpression(expression))

FormulaTags(formula) ==
    LET nameText == ToLowerCase(formula.name)
        expressionText == ToLowerCase(formula.expression)
        t1 == PushTag(formula.tags,
                  \/ Includes(nameText, KwProfit) \/ Includes(nameText, KwMargin)
                  \/ Includes(nameText, KwRatio) \/ Includes(nameText, KwReturn)
                  \/ Includes(expressionText, KwProfit) \/ Includes(expressionText, KwRevenue)
                  \/ Includes(expressionText, KwIncome) \/ Includes(expressionText, KwAsset),
                  TagFinancialMetrics)
    IN  PushTag(t1,
                  \/ Includes(nameText, KwMargin) \/ Includes(nameText, KwProfitability)
                  \/ Includes(expressionText, KwMargin) \/ Includes(expressionText, KwNetIncome),
                  TagProfitability)

\* {...formula, id: ulid(), documentId, tags}
enrichFormula(formula, docId, id) ==
    [name |-> formula.name, expression |-> formula.expression,
     span_ids |-> formula.span_ids, confidence |-> formula.confidence,
     id |-> id, documentId |-> docId, tags |-> FormulaTags(formula)]

\* FormulaSchema
FormulaSchemaOk(d) ==
    /\ Len(d.span_ids) >= 1 /\ Len(d.span_ids) <= 3
    /\ d.confidence >= 0 /\ d.confidence <= 100

\* the quality gates of the formulas filter
FormulaGates(d) ==
    /\ ~(d.confidence < ConfidenceFunctions)
    /\ ~(Len(d.span_ids) < 1 \/ Len(d.span_ids) > 3)

\* variant: formulas are keyed by name
FormulaKeyByName(d, docId) ==
    <<docId, d.name>>

FormulaKey(d, docId) ==
    <<docId, createExpressionHash(d.expression)>>

\* formulas.filter(...): returns the kept drafts and the grown seen-set
RECURSIVE FormulaFilter(_, _, _, _)
FormulaFilter(drafts, docId, seenSet, kept) ==
    IF drafts = <<>> THEN [kept |-> kept, seen |-> seenSet]
    ELSE LET d == Head(drafts)
             key == FormulaKey(d, docId)
         IN  IF ~FormulaGates(d) \/ key \in seenSet
             THEN FormulaFilter(Tail(drafts), docId, seenSet, kept)
             ELSE FormulaFilter(Tail(drafts), docId, seenSet \cup {key},
                                Append(kept, d))

StampFormulas(kept, docId, firstId) ==
    [k \in DOMAIN kept |-> enrichFormula(kept[k], docId, firstId + k - 1)]

----------------------------------------------------------------------------
(* Functions and claims extractors *)

\* FunctionDocSchema
FunctionSchemaOk(d) ==
    /\ Len(d.purpose) <= 400
    /\ \A k \in DOMAIN d.steps : d.steps[k].n > 0
    /\ d.confidence >= 0 /\ d.confidence <= 100

\* variant: the threshold itself is rejected
FunctionGateStrict(d) ==
    d.confidence > ConfidenceFunctions

\* functions.filter(func => func.confidence >= config.confidence.functions)
FunctionGate(d) ==
    d.confidence >= ConfidenceFunctions

\* {...func, id: ulid(), documentId}
StampFunction(d, docId, id) ==
    [name |-> d.name, purpose |-> d.purpose, steps |-> d.steps,
     span_ids |-> d.span_ids, confidence |-> d.confidence,
     id |-> id, documentId |-> docId]

StampFunctions(kept, docId, firstId) ==
    [k \in DOMAIN kept |-> StampFunction(kept[k], docId, firstId + k - 1)]

\* ClaimSchema
ClaimSchemaOk(d) ==
    d.confidence >= 0 /\ d.confidence <= 100

\* claims.filter(claim => claim.confidence >= config.confidence.claims)
ClaimGate(d) ==
    d.confidence >= ConfidenceClaims

\* {...claim, id: ulid(), documentId}
StampClaim(d, docId, id) ==
    [subject |-> d.subject, predicate |-> d.predicate, object |-> d.object,
     span_ids |-> d.span_ids, confidence |-> d.confidence,
     id |-> id, documentId |-> docId]

StampClaims(kept, docId, firstId) ==
    [k \in DOMAIN kept |-> StampClaim(kept[k], docId, firstId + k - 1)]

----------------------------------------------------------------------------
(* What the model endpoint may answer *)

TermRatio ==
    <<"R", "a", "t", "i", "o">>

TermRatioDot ==
    <<"r", "a", "t", "i", "o", ".">>

TermNetX ==
    <<"N", "e", "t", " ", " ", "x">>

TextSum ==
    <<"a", " ", "s", "u", "m">>

AliasRDot ==
    <<"R", ".">>

AliasQuotient ==
    <<"Q", " ", " ", "t">>

DefinitionSpanIds(term) ==
    IF term = TermRatio THEN <<"s1">>
    ELSE IF term = TermRatioDot THEN <<"s2", "s3">>
    ELSE <<"s1", "s3">>

DefinitionAliases(term) ==
    IF term = TermRatio THEN <<AliasRDot>>
    ELSE IF term = TermRatioDot THEN <<AliasQuotient>>
    ELSE <<>>

\* drafts that differ in case, punctuation and spacing of the term, with
\* confidences below, at and above the threshold; one breaks the schema
DefinitionDrafts ==
    {[term |-> t, definition |-> TextSum, aliases |-> DefinitionAliases(t),
      span_ids |-> DefinitionSpanIds(t), confidence |-> c, tags |-> <<>>] :
        t \in {TermRatio, TermRatioDot, TermNetX}, c \in {80, 85, 95}}
    \cup {[term |-> TermNetX, definition |-> TextSum, aliases |-> <<>>,
           span_ids |-> <<>>, confidence |-> 95, tags |-> <<>>]}

ExprUpper ==
    <<"A", " ", "=", " ", "B">>

ExprLower ==
    <<"a", "=", "b">>

ExprOther ==
    <<"c", "=", "d">>

Expressions ==
    {ExprUpper, ExprLower, ExprOther}

NormExpressions ==
    {NormalizeExpression(e) : e \in Expressions}

FormulaName(e) ==
    IF e = ExprUpper THEN <<"n", "1">> ELSE <<"n", "2">>

FormulaDrafts ==
    {[name |-> FormulaName(e), expression |-> e,
      span_ids |-> IF e = ExprLower THEN <<"s2">> ELSE <<"s1">>,
      confidence |-> c, tags |-> <<>>] :
        e \in Expressions, c \in {70, 75, 90}}
    \cup {[name |-> FormulaName(ExprOther), expression |-> ExprOther,
           span_ids |-> <<>>, confidence |-> 90, tags |-> <<>>]}

StepsOne ==
    <<[n |-> 1, text |-> <<"x">>]>>

StepsTwo ==
    <<[n |-> 1, text |-> <<"x">>], [n |-> 2, text |-> <<"y">>]>>

FunctionDrafts ==
    {[name |-> nm, purpose |-> <<"p">>, steps |-> st,
      span_ids |-> IF c = 90 THEN <<"s1">> ELSE <<>>, confidence |-> c] :
        nm \in {<<"f">>}, st \in {StepsOne, StepsTwo}, c \in {70, 75, 90}}
    \cup {[name |-> <<"g">>, purpose |-> <<"p">>, steps |-> StepsOne,
           span_ids |-> <<"s2">>, confidence |-> 90]}

ClaimDrafts ==
    {[subject |-> sb, predicate |-> <<"i", "s">>, object |-> <<"o">>,
      span_ids |-> <<"s1">>, confidence |-> c] :
        sb \in {<<"a">>, <<"b">>}, c \in {75, 80, 90}}

SeqsUpTo(S, n) ==
    UNION {[1..k -> S] : k \in 0..n}

\* callClaude throws; or it returns content that is not JSON; or JSON drafts
Responses(drafts) ==
    {[status |-> "throw", parsable |-> FALSE, drafts |-> <<>>],
     [status |-> "ok", parsable |-> FALSE, drafts |-> <<>>]}
    \cup {[status |-> "ok", parsable |-> TRUE, drafts |-> ds] :
            ds \in SeqsUpTo(drafts, MaxDrafts)}

NoResponse ==
    [status |-> "none", parsable |-> FALSE, drafts |-> <<>>]

\* parseJsonResponse: JSON.parse, then schema.parse of the whole array
SchemaParses(schema, d) ==
    IF schema = "DefinitionSchema" THEN DefinitionSchemaOk(d)
    ELSE IF schema = "FormulaSchema" THEN FormulaSchemaOk(d)
    ELSE IF schema = "FunctionDocSchema" THEN FunctionSchemaOk(d)
    ELSE ClaimSchemaOk(d)

ParseOk(r, schema) ==
    r.parsable /\ \A k \in DOMAIN r.drafts : SchemaParses(schema, r.drafts[k])

MsgCall ==
    "Claude API error"

MsgParse ==
    "Failed to parse JSON response"

----------------------------------------------------------------------------
(* The window loop of the four extractors *)

Kinds ==
    {"definitions", "formulas", "functions", "claims"}

\* variant: a failing window discards what earlier windows produced
WindowFailsRollsBack(msg) ==
    /\ errors' = Append(errors, [window |-> i + 1, message |-> msg])
    /\ i' = i + 1
    /\ results' = <<>>
    /\ UNCHANGED <<seen, nextId, pc>>

\* catch (error) { errors.push(`Window ${i + 1}: ...`) }, then the loop's i++
WindowFails(msg) ==
    /\ errors' = Append(errors, [window |-> i + 1, message |-> msg])
    /\ i' = i + 1
    /\ UNCHANGED <<results, seen, nextId, pc>>

\* results.push(...valid), then the await of the rate-limiting timer
WindowSucceeds(new, seenSet) ==
    /\ results' = results \o new
    /\ seen' = seenSet
    /\ nextId' = nextId + Len(new)
    /\ pc' = "delay"
    /\ UNCHANGED <<errors, i>>

ExtractDefinitionsWindow ==
    /\ kind = "definitions" /\ pc = "call" /\ i < numWindows
    /\ \E r \in Responses(DefinitionDrafts) :
        /\ response' = r
        /\ attempted' = Append(attempted, i + 1)
        /\ IF r.status = "throw" THEN WindowFails(MsgCall)
           ELSE IF ~ParseOk(r, "DefinitionSchema") THEN WindowFails(MsgParse)
           ELSE LET f == DefinitionFilter(r.drafts, documentId, seen, <<>>)
                IN  WindowSucceeds(StampDefinitions(f.kept, documentId, nextId), f.seen)
    /\ UNCHANGED <<kind, documentId, numWindows>>
    /\ UNCHANGED <<windowVars, citeVars, validateVars, cmdVars, callVars, roleVars, runVars, parseVars>>

ExtractFormulasWindow ==
    /\ kind = "formulas" /\ pc = "call" /\ i < numWindows
    /\ \E r \in Responses(FormulaDrafts) :
        /\ response' = r
        /\ attempted' = Append(attempted, i + 1)
        /\ IF r.status = "throw" THEN WindowFails(MsgCall)
           ELSE IF ~ParseOk(r, "FormulaSchema") THEN WindowFails(MsgParse)
           ELSE LET f == FormulaFilter(r.drafts, documentId, seen, <<>>)
                IN  WindowSucceeds(StampFormulas(f.kept, documentId, nextId), f.seen)
    /\ UNCHANGED <<kind, documentId, numWindows>>
    /\ UNCHANGED <<windowVars, citeVars, validateVars, cmdVars, callVars, roleVars, runVars, parseVars>>

ExtractFunctionsWindow ==
    /\ kind = "functions" /\ pc = "call" /\ i < numWindows
    /\ \E r \in Responses(FunctionDrafts) :
        /\ response' = r
        /\ attempted' = Append(attempted, i + 1)
        /\ IF r.status = "throw" THEN WindowFails(MsgCall)
           ELSE IF ~ParseOk(r, "FunctionDocSchema") THEN WindowFails(MsgParse)
           ELSE WindowSucceeds(
                    StampFunctions(SelectSeq(r.drafts, FunctionGate), documentId, nextId),
                    seen)
    /\ UNCHANGED <<kind, documentId, numWindows>>
    /\ UNCHANGED <<windowVars, citeVars, validateVars, cmdVars, callVars, roleVars, runVars, parseVars>>

ExtractClaimsWindow ==
    /\ kind = "claims" /\ pc = "call" /\ i < numWindows
    /\ \E r \in Responses(ClaimDrafts) :
        /\ response' = r
        /\ attempted' = Append(attempted, i + 1)
        /\ IF r.status = "throw" THEN WindowFails(MsgCall)
           ELSE IF ~ParseOk(r, "ClaimSchema") THEN WindowFails(MsgParse)
           ELSE WindowSucceeds(
                    StampClaims(SelectSeq(r.drafts, ClaimGate), documentId, nextId),
                    seen)
    /\ UNCHANGED <<kind, documentId, numWindows>>
    /\ UNCHANGED <<windowVars, citeVars, validateVars, cmdVars, callVars, roleVars, runVars, parseVars>>

\* the timer after a successful window fires; the loop's i++ follows
RateLimitDelay ==
    /\ pc = "delay"
    /\ pc' = "call"
    /\ i' = i + 1
    /\ response' = NoResponse
    /\ UNCHANGED <<kind, documentId, numWindows, results, errors, seen, nextId,
                   attempted>>
    /\ UNCHANGED <<windowVars, citeVars, validateVars, cmdVars, callVars, roleVars, runVars, parseVars>>

\* return { units: results, errors, tokenCount }
ReturnResult ==
    /\ kind \in Kinds /\ pc = "call" /\ i >= numWindows
    /\ pc' = "done"
    /\ UNCHANGED <<kind, documentId, numWindows, i, results, errors, seen, response,
                   nextId, attempted>>
    /\ UNCHANGED <<windowVars, citeVars, validateVars, cmdVars, callVars, roleVars, runVars, parseVars>>

NoWindows ==
    [fn |-> "none", returned |-> FALSE, windows |-> <<>>]

NoCitationOutput ==
    [fn |-> "none", pages |-> <<>>, ranges |-> <<>>, groups |-> <<>>]

NoFunctionDoc ==
    [name |-> <<>>, purpose |-> <<>>, steps |-> <<>>, preconditions |-> <<>>,
     failure_modes |-> <<>>, span_ids |-> <<>>, confidence |-> 0]

NoClaim ==
    [subject |-> <<>>, predicate |-> <<>>, object |-> <<>>, span_ids |-> <<>>,
     confidence |-> 0]

NoDefinition ==
    [term |-> <<>>, definition |-> <<>>, aliases |-> <<>>, span_ids |-> <<>>,
     confidence |-> 0]

NoValidation ==
    [fn |-> "none", valid |-> FALSE, errors |-> <<>>]

NoUnits ==
    [functions |-> <<>>, claims |-> <<>>, definitions |-> <<>>]

NoReport ==
    [ran |-> FALSE, strict |-> FALSE, verdicts |-> <<>>, totalUnits |-> 0,
     validUnits |-> 0, totalErrors |-> 0, exit |-> 0]

CmdIdle ==
    /\ storedSpans = {} /\ extracted = NoUnits /\ draftFiles = NoUnits
    /\ db = NoUnits /\ report = NoReport /\ ncmds = 0

NoError ==
    [kind |-> "none", mentions429 |-> FALSE]

CallIdle ==
    /\ cpc = "idle" /\ attempt = 0 /\ lastError = NoError /\ httpLog = <<>>

RoleIdle ==
    /\ line = <<>> /\ role = None

RunsIdle ==
    /\ runs = <<>> /\ nextUlid = 1

ParseIdle ==
    /\ enriched = <<>> /\ pdfText = <<>> /\ pageCount = 1 /\ blocks = <<>>
    /\ merged = <<>> /\ ppc = "idle"

ExtractIdle ==
    /\ kind = None /\ documentId = None /\ numWindows = 0 /\ i = 0
    /\ results = <<>> /\ errors = <<>> /\ seen = {} /\ response = NoResponse
    /\ nextId = 1 /\ attempted = <<>> /\ pc = "idle"

WindowIdle ==
    /\ wspans = <<>> /\ wsize = 0 /\ wout = NoWindows

CiteIdle ==
    /\ cites = <<>> /\ cout = NoCitationOutput

ValidateIdle ==
    /\ func = NoFunctionDoc /\ claim = NoClaim /\ defn = NoDefinition
    /\ vout = NoValidation

Init ==
    /\ kind \in Kinds
    /\ documentId = "doc1"
    /\ numWindows \in 0..MaxWindows
    /\ i = 0
    /\ results = <<>>
    /\ errors = <<>>
    /\ seen = {}
    /\ response = NoResponse
    /\ nextId = 1
    /\ attempted = <<>>
    /\ pc = "call"
    /\ WindowIdle /\ CiteIdle /\ ValidateIdle /\ CmdIdle /\ CallIdle /\ RoleIdle /\ RunsIdle /\ ParseIdle

Next ==
    \/ ExtractDefinitionsWindow
    \/ ExtractFormulasWindow
    \/ ExtractFunctionsWindow
    \/ ExtractClaimsWindow
    \/ RateLimitDelay
    \/ ReturnResult

Spec ==
    Init /\ [][Next]_vars

----------------------------------------------------------------------------
(* Properties of the window loop *)

IsPrefix(a, b) ==
    Len(a) <= Len(b) /\ SubSeq(b, 1, Len(a)) = a

SchemaOkFor(k, d) ==
    IF k = "definitions" THEN DefinitionSchemaOk(d)
    ELSE IF k = "formulas" THEN FormulaSchemaOk(d)
    ELSE IF k = "functions" THEN FunctionSchemaOk(d)
    ELSE ClaimSchemaOk(d)

\* the window's model call threw, or its content failed JSON or schema parsing
OutcomeFailed(r) ==
    \/ r.status = "throw"
    \/ ~r.parsable
    \/ \E k \in DOMAIN r.drafts : ~SchemaOkFor(kind, r.drafts[k])

\* the step processed a window
WindowStep ==
    attempted' # attempted

\* the unit was made from the draft
MadeFrom(u, d) ==
    /\ u.confidence = d.confidence
    /\ u.span_ids = d.span_ids
    /\ CASE kind = "definitions" ->
                u.term = d.term /\ u.definition = d.definition /\ u.aliases = d.aliases
         [] kind = "formulas" -> u.name = d.name /\ u.expression = d.expression
         [] kind = "functions" -> u.name = d.name /\ u.steps = d.steps
         [] kind = "claims" -> u.subject = d.subject /\ u.object = d.object

C1Step ==
    /\ WindowStep =>
        /\ attempted' = Append(attempted, Len(attempted) + 1)
        /\ Len(attempted') <= numWindows
        /\ IF OutcomeFailed(response')
           THEN /\ errors' = Append(errors, errors'[Len(errors')])
                /\ errors'[Len(errors')].window = Len(attempted')
                /\ results' = results
           ELSE /\ errors' = errors
                /\ IsPrefix(results, results')
                /\ \A k \in (Len(results) + 1)..Len(results') :
                       \E j \in DOMAIN response'.drafts :
                           MadeFrom(results'[k], response'.drafts[j])
    /\ ~WindowStep => (results' = results /\ errors' = errors)

\* C1: every window is attempted exactly once, in increasing index order; a
\* failed window adds exactly one error entry and no units, does not stop the
\* next window from being attempted and removes no unit accumulated earlier;
\* units only come from the drafts of non-failed windows.
C1_WindowFailureIsolated ==
    /\ [][C1Step]_vars
    /\ [](pc = "done" =>
            /\ attempted = [k \in 1..numWindows |-> k]
            /\ \A k \in DOMAIN errors : errors[k].window \in 1..numWindows
            /\ \A j, k \in DOMAIN errors : j < k => errors[j].window < errors[k].window)

\* a run in which a failed window follows a productive one and precedes the end
C1_Witness ==
    /\ pc = "done" /\ numWindows = 2
    /\ Len(results) >= 1 /\ Len(errors) = 1 /\ errors[1].window = 2

\* a definitions window was just processed without failure
DefinitionsProcessed ==
    kind = "definitions" /\ pc = "delay"

Passing(r) ==
    {k \in DOMAIN r.drafts : DefinitionGates(r.drafts[k])}

SlugKey(x) ==
    <<documentId, createTermSlug(x.term)>>

UnitsWithKey(units, key) ==
    {k \in DOMAIN units : SlugKey(units[k]) = key}

FirstSeen(before, r, k) ==
    LET key == SlugKey(r.drafts[k])
    IN  IF UnitsWithKey(before, key) # {}
        THEN before[CHOOSE j \in UnitsWithKey(before, key) : TRUE]
        ELSE r.drafts[CHOOSE j \in Passing(r) :
                        /\ SlugKey(r.drafts[j]) = key
                        /\ \A m \in Passing(r) : SlugKey(r.drafts[m]) = key => j <= m]

C2Step ==
    (kind = "definitions" /\ WindowStep /\ pc' = "delay") =>
        /\ IsPrefix(results, results')
        /\ \A k \in Passing(response') :
            LET key == SlugKey(response'.drafts[k])
                first == FirstSeen(results, response', k)
            IN  /\ Cardinality(UnitsWithKey(results', key)) = 1
                /\ \A j \in UnitsWithKey(results', key) :
                    MadeFrom(results'[j], first)

C3Step ==
    (kind = "definitions" /\ WindowStep /\ pc' = "delay") =>
        \A k \in Passing(response') :
            LET d == response'.drafts[k]
                first == FirstSeen(results, response', k)
            IN  first.confidence = d.confidence =>
                    \A j \in UnitsWithKey(results', SlugKey(d)) :
                        /\ results'[j].span_ids = first.span_ids
                        /\ results'[j].aliases = first.aliases
                        /\ results'[j].aliases_norm = normalizeAliases(first.aliases)

C4_DedupIdempotent ==
    kind = "definitions" =>
        /\ \A j, k \in DOMAIN results :
            j # k => <<results[j].documentId, results[j].term_slug>>
                     # <<results[k].documentId, results[k].term_slug>>
        /\ DefinitionFilter(results, documentId, {}, <<>>).kept = results
        /\ \A k \in DOMAIN results :
            enrichDefinition(results[k], documentId, results[k].id) = results[k]

\* two records are out, and the last response held a draft the dedup dropped
C4_Witness ==
    /\ DefinitionsProcessed
    /\ Len(results) = 2
    /\ \E k \in Passing(response) : \A j \in DOMAIN results :
        ~MadeFrom(results[j], response.drafts[k])

AtThreshold(r) ==
    {k \in DOMAIN r.drafts : r.drafts[k].confidence >= ConfidenceFunctions}

C5Step ==
    (kind = "functions" /\ WindowStep /\ ~OutcomeFailed(response')) =>
        /\ IsPrefix(results, results')
        /\ Len(results') = Len(results) + Cardinality(AtThreshold(response'))
        /\ \A k \in AtThreshold(response') :
            MadeFrom(results'[Len(results)
                              + Cardinality({j \in AtThreshold(response') : j <= k})],
                     response'.drafts[k])

FormulaPassing(r) ==
    {k \in DOMAIN r.drafts :
        /\ r.drafts[k].confidence >= ConfidenceFunctions
        /\ Len(r.drafts[k].span_ids) \in 1..3}

SameExpression(x, y) ==
    NormalizeExpression(x.expression) = NormalizeExpression(y.expression)

C6Step ==
    (kind = "formulas" /\ WindowStep /\ ~OutcomeFailed(response')) =>
        /\ IsPrefix(results, results')
        /\ \A k \in FormulaPassing(response') :
            LET d == response'.drafts[k]
                first ==
                    IF \E j \in DOMAIN results : SameExpression(results[j], d)
                    THEN results[CHOOSE j \in DOMAIN results : SameExpression(results[j], d)]
                    ELSE response'.drafts[CHOOSE j \in FormulaPassing(response') :
                            /\ SameExpression(response'.drafts[j], d)
                            /\ \A m \in FormulaPassing(response') :
                                SameExpression(response'.drafts[m], d) => j <= m]
            IN  \E j \in DOMAIN results' :
                    /\ SameExpression(results'[j], d)
                    /\ MadeFrom(results'[j], first)

\* C6: the units of extractFormulas never hold two formulas whose expressions
\* are equal after lower-casing and removing whitespace, whatever their names;
\* of such drafts the first gate-passing one seen is the one kept.
C6_OneFormulaPerExpression ==
    /\ [](kind = "formulas" =>
            \A j, k \in DOMAIN results : j # k => ~SameExpression(results[j], results[k]))
    /\ [][C6Step]_vars

\* a gate-passing draft was dropped for a kept formula of another name whose
\* expression differs from it only in case and spacing
C6_Witness ==
    /\ kind = "formulas" /\ pc = "delay"
    /\ \E k \in FormulaPassing(response) : \E j \in DOMAIN results :
        /\ SameExpression(results[j], response.drafts[k])
        /\ results[j].expression # response.drafts[k].expression
        /\ results[j].name # response.drafts[k].name

----------------------------------------------------------------------------
(* Extraction windowers *)

Min(a, b) ==
    IF a < b THEN a ELSE b

Max(a, b) ==
    IF a > b THEN a ELSE b

\* Array.prototype.slice(from, to) for from >= 0
Slice(s, from, to) ==
    SubSeq(s, from + 1, Min(to, Len(s)))

\* Array.prototype.indexOf on the span objects, 0-based
IndexOf(spans, span) ==
    (CHOOSE k \in DOMAIN spans : spans[k] = span) - 1

\* variant: the chunk loop advances one span too far
RECURSIVE FixedChunksSkipping(_, _, _, _)
FixedChunksSkipping(spans, windowSize, from, acc) ==
    IF from >= Len(spans) THEN acc
    ELSE FixedChunksSkipping(spans, windowSize, from + windowSize + 1,
                             Append(acc, Slice(spans, from, from + windowSize)))

\* for (let i = 0; i < spans.length; i += windowSize) windows.push(slice)
RECURSIVE FixedChunks(_, _, _, _)
FixedChunks(spans, windowSize, from, acc) ==
    IF from >= Len(spans) THEN acc
    ELSE FixedChunks(spans, windowSize, from + windowSize,
                     Append(acc, Slice(spans, from, from + windowSize)))

\* for (let j = from; j < list.length; j += stride) push the non-empty slice.
\* With stride 0 the index never moves and the loop pushes the same slice for
\* ever: the call does not return, and windows holds what was pushed.
RECURSIVE StrideLoop(_, _, _, _, _)
StrideLoop(list, windowSize, stride, from, acc) ==
    IF from >= Len(list) THEN [returned |-> TRUE, windows |-> acc]
    ELSE LET window == Slice(list, from, from + windowSize)
             pushed == IF Len(window) > 0 THEN Append(acc, window) ELSE acc
         IN  IF stride = 0 THEN [returned |-> FALSE, windows |-> pushed]
             ELSE StrideLoop(list, windowSize, stride, from + stride, pushed)

\* variant: the sub-windows of a section advance by more than a window
FunctionStrideWide(windowSize) ==
    windowSize + 1

\* Math.floor(windowSize * 0.8)
FunctionStride(windowSize) ==
    (windowSize * 8) \div 10

\* Math.floor(windowSize * 0.7)
ClaimStride(windowSize) ==
    (windowSize * 7) \div 10

IsHeading(span) ==
    span.role = "heading"

\* the loop over the headings of createExtractionWindows
RECURSIVE SectionLoop(_, _, _, _, _)
SectionLoop(spans, windowSize, headings, h, acc) ==
    IF h > Len(headings) THEN [returned |-> TRUE, windows |-> acc]
    ELSE LET startIdx == IndexOf(spans, headings[h])
             endIdx == IF h + 1 <= Len(headings) THEN IndexOf(spans, headings[h + 1])
                       ELSE Len(spans)
             sectionSpans == Slice(spans, startIdx, endIdx)
         IN  IF Len(sectionSpans) <= windowSize
             THEN SectionLoop(spans, windowSize, headings, h + 1, Append(acc, sectionSpans))
             ELSE LET sub == StrideLoop(sectionSpans, windowSize,
                                        FunctionStride(windowSize), 0, acc)
                  IN  IF sub.returned
                      THEN SectionLoop(spans, windowSize, headings, h + 1, sub.windows)
                      ELSE sub

createExtractionWindows(spans, windowSize) ==
    LET headings == SelectSeq(spans, IsHeading)
    IN  IF Len(headings) = 0
        THEN [returned |-> TRUE, windows |-> FixedChunks(spans, windowSize, 0, <<>>)]
        ELSE SectionLoop(spans, windowSize, headings, 1, <<>>)

IsFactual(span) ==
    span.role = "para" \/ span.role = "list"

createClaimWindows(spans, windowSize) ==
    StrideLoop(SelectSeq(spans, IsFactual), windowSize, ClaimStride(windowSize), 0, <<>>)

DefinitionCues ==
    {<<" ", "i", "s", " ">>,
     <<" ", "a", "r", "e", " ">>,
     <<" ", "m", "e", "a", "n", "s", " ">>,
     <<" ", "r", "e", "f", "e", "r", "s", " ", "t", "o", " ">>,
     <<" ", "d", "e", "f", "i", "n", "e", "d", " ", "a", "s", " ">>}

FormulaCues ==
    {<<" ", "=", " ">>,
     <<" ", "e", "q", "u", "a", "l", "s", " ">>,
     <<" ", "c", "a", "l", "c", "u", "l", "a", "t", "e", "d", " ", "a", "s", " ">>,
     <<" ", "f", "o", "r", "m", "u", "l", "a", " ">>,
     <<" ", "r", "a", "t", "i", "o", " ">>,
     <<" ", "m", "a", "r", "g", "i", "n", " ">>,
     <<" ", "r", "e", "t", "u", "r", "n", " ">>,
     <<"c", "a", "l", "c", "u", "l", "a", "t", "e">>,
     <<"c", "o", "m", "p", "u", "t", "e">>}

IsDefinitionCandidate(span) ==
    \/ \E cue \in DefinitionCues : Includes(ToLowerCase(span.text), cue)
    \/ span.role = "heading"

IsFormulaCandidate(span) ==
    \E cue \in FormulaCues : Includes(ToLowerCase(span.text), cue)

\* for (const candidate of candidates) windows.push(spans.slice(startIdx, endIdx))
CandidateWindows(spans, windowSize, candidates) ==
    [c \in DOMAIN candidates |->
        LET candidateIdx == IndexOf(spans, candidates[c])
            startIdx == Max(0, candidateIdx - 1)
            endIdx == Min(Len(spans), candidateIdx + windowSize - 1)
        IN  Slice(spans, startIdx, endIdx)]

createDefinitionWindows(spans, windowSize) ==
    LET definitionCandidates == SelectSeq(spans, IsDefinitionCandidate)
    IN  [returned |-> TRUE,
         windows |-> IF Len(definitionCandidates) = 0
                     THEN FixedChunks(spans, windowSize, 0, <<>>)
                     ELSE CandidateWindows(spans, windowSize, definitionCandidates)]

createFormulaWindows(spans, windowSize) ==
    LET formulaCandidates == SelectSeq(spans, IsFormulaCandidate)
    IN  [returned |-> TRUE,
         windows |-> IF Len(formulaCandidates) = 0
                     THEN FixedChunks(spans, windowSize, 0, <<>>)
                     ELSE CandidateWindows(spans, windowSize, formulaCandidates)]

----------------------------------------------------------------------------
(* The windowers applied to every small span list *)

TextPlain ==
    <<"C", "a", "s", "h">>

TextIs ==
    <<"X", " ", "I", "s", " ", "y">>

TextEquals ==
    <<"a", " ", "=", " ", "b">>

\* role and text of the spans a document is made of
SpanShapes ==
    {[role |-> "heading", text |-> TextPlain],
     [role |-> "heading", text |-> TextEquals],
     [role |-> "para", text |-> TextPlain],
     [role |-> "para", text |-> TextIs],
     [role |-> "para", text |-> TextEquals],
     [role |-> "list", text |-> TextPlain],
     [role |-> "table", text |-> TextPlain]}

\* span lists in document order; the id of a span is its position
SpanLists ==
    {[k \in DOMAIN shapes |->
        [id |-> k, role |-> shapes[k].role, text |-> shapes[k].text]] :
            shapes \in SeqsUpTo(SpanShapes, MaxSpans)}

CallCreateExtractionWindows ==
    /\ wout.fn = "none" /\ wsize >= 1
    /\ wout' = [fn |-> "functions"] @@ createExtractionWindows(wspans, wsize)
    /\ UNCHANGED <<wspans, wsize, extractVars, citeVars, validateVars, cmdVars, callVars, roleVars, runVars, parseVars>>

CallCreateClaimWindows ==
    /\ wout.fn = "none" /\ wsize >= 1
    /\ wout' = [fn |-> "claims"] @@ createClaimWindows(wspans, wsize)
    /\ UNCHANGED <<wspans, wsize, extractVars, citeVars, validateVars, cmdVars, callVars, roleVars, runVars, parseVars>>

CallCreateDefinitionWindows ==
    /\ wout.fn = "none" /\ wsize >= 1
    /\ wout' = [fn |-> "definitions"] @@ createDefinitionWindows(wspans, wsize)
    /\ UNCHANGED <<wspans, wsize, extractVars, citeVars, validateVars, cmdVars, callVars, roleVars, runVars, parseVars>>

CallCreateFormulaWindows ==
    /\ wout.fn = "none" /\ wsize >= 1
    /\ wout' = [fn |-> "formulas"] @@ createFormulaWindows(wspans, wsize)
    /\ UNCHANGED <<wspans, wsize, extractVars, citeVars, validateVars, cmdVars, callVars, roleVars, runVars, parseVars>>

InitWindows ==
    /\ wspans \in SpanLists
    /\ wsize \in 1..MaxWindowSize
    /\ wout = NoWindows
    /\ ExtractIdle /\ CiteIdle /\ ValidateIdle /\ CmdIdle /\ CallIdle /\ RoleIdle /\ RunsIdle /\ ParseIdle

NextWindows ==
    \/ CallCreateExtractionWindows
    \/ CallCreateClaimWindows
    \/ CallCreateDefinitionWindows
    \/ CallCreateFormulaWindows

SpecWindows ==
    InitWindows /\ [][NextWindows]_vars

\* the window holds spans of the input only, in document order
WindowOfInput(w) ==
    \A k \in DOMAIN w :
        /\ w[k].id \in DOMAIN wspans /\ wspans[w[k].id] = w[k]
        /\ k > 1 => w[k - 1].id < w[k].id

RECURSIVE Flatten(_)
Flatten(ws) ==
    IF ws = <<>> THEN <<>> ELSE Head(ws) \o Flatten(Tail(ws))

\* the windower took its fixed-size fallback
FallbackUsed ==
    \/ wout.fn = "functions" /\ \A k \in DOMAIN wspans : wspans[k].role # "heading"
    \/ wout.fn = "definitions" /\ \A k \in DOMAIN wspans : ~IsDefinitionCandidate(wspans[k])
    \/ wout.fn = "formulas" /\ \A k \in DOMAIN wspans : ~IsFormulaCandidate(wspans[k])

\* C7: every window of the four windowers holds spans of the input only, in
\* document order; the fixed-size fallback windows partition the input: each
\* span in exactly one window, at most windowSize spans a window, windows in
\* document order.
C7_WindowsWithinInput ==
    wout.fn # "none" =>
        /\ \A k \in DOMAIN wout.windows : WindowOfInput(wout.windows[k])
        /\ FallbackUsed =>
            /\ wout.returned
            /\ Flatten(wout.windows) = wspans
            /\ \A k \in DOMAIN wout.windows :
                Len(wout.windows[k]) \in 1..wsize

\* the fallback cut a document without candidates into several windows, the
\* last one short
C7_Witness ==
    /\ wout.fn = "definitions" /\ FallbackUsed
    /\ Len(wspans) = 4 /\ wsize = 3 /\ Len(wout.windows) = 2

----------------------------------------------------------------------------
(* Citation formatter *)

\* [...new Set(pages)]: the distinct values in order of first occurrence
RECURSIVE Distinct(_, _)
Distinct(pages, acc) ==
    IF pages = <<>> THEN acc
    ELSE Distinct(Tail(pages),
                  IF ArrayIncludes(acc, Head(pages)) THEN acc ELSE Append(acc, Head(pages)))

\* the place of x in the ascending sequence sorted
InsertAscending(sorted, x) ==
    LET before == SelectSeq(sorted, LAMBDA y : y <= x)
        after == SelectSeq(sorted, LAMBDA y : y > x)
    IN  before \o <<x>> \o after

\* variant: the numbers are left in the order given
SortUnsorted(numbers) ==
    numbers

\* Array.prototype.sort((a, b) => a - b)
RECURSIVE SortAscending(_)
SortAscending(numbers) ==
    IF numbers = <<>> THEN <<>>
    ELSE InsertAscending(SortAscending(SubSeq(numbers, 1, Len(numbers) - 1)),
                         numbers[Len(numbers)])

\* variant: a title cited again moves to the end of the Map
RECURSIVE GroupLoopLastOccurrence(_, _)
GroupLoopLastOccurrence(citations, groups) ==
    IF citations = <<>> THEN groups
    ELSE LET citation == Head(citations)
             old == SelectSeq(groups, LAMBDA g : g.title = citation.title)
             rest == SelectSeq(groups, LAMBDA g : g.title # citation.title)
             pages == IF old = <<>> THEN <<>> ELSE old[1].pages
         IN  GroupLoopLastOccurrence(Tail(citations),
                 Append(rest, [title |-> citation.title,
                               pages |-> Append(pages, citation.page)]))

\* the Map of the grouping loop, as its entries in insertion order
RECURSIVE GroupLoop(_, _)
GroupLoop(citations, groups) ==
    IF citations = <<>> THEN groups
    ELSE LET citation == Head(citations)
             withKey == IF \E g \in DOMAIN groups : groups[g].title = citation.title
                        THEN groups
                        ELSE Append(groups, [title |-> citation.title, pages |-> <<>>])
         IN  GroupLoop(Tail(citations),
                 [g \in DOMAIN withKey |->
                     IF withKey[g].title = citation.title
                     THEN [title |-> withKey[g].title,
                           pages |-> Append(withKey[g].pages, citation.page)]
                     ELSE withKey[g]])

groupSpansByTitle(citations) ==
    LET groups == GroupLoop(citations, <<>>)
    IN  [g \in DOMAIN groups |->
            [title |-> groups[g].title,
             pages |-> SortAscending(Distinct(groups[g].pages, <<>>))]]

\* variant: a page at or after the current end extends the range
RECURSIVE CollapseLoopLoose(_, _, _, _, _)
CollapseLoopLoose(pages, k, currentStart, currentEnd, ranges) ==
    IF k > Len(pages)
    THEN Append(ranges, [start |-> currentStart, end |-> currentEnd])
    ELSE IF pages[k] >= currentEnd + 1 /\ pages[k] <= currentEnd + 2
         THEN CollapseLoopLoose(pages, k + 1, currentStart, pages[k], ranges)
         ELSE CollapseLoopLoose(pages, k + 1, pages[k], pages[k],
                  Append(ranges, [start |-> currentStart, end |-> currentEnd]))

\* the loop of collapsePageRanges and the push of the final range
RECURSIVE CollapseLoop(_, _, _, _, _)
CollapseLoop(pages, k, currentStart, currentEnd, ranges) ==
    IF k > Len(pages)
    THEN Append(ranges, [start |-> currentStart, end |-> currentEnd])
    ELSE IF pages[k] = currentEnd + 1
         THEN CollapseLoop(pages, k + 1, currentStart, pages[k], ranges)
         ELSE CollapseLoop(pages, k + 1, pages[k], pages[k],
                  Append(ranges, [start |-> currentStart, end |-> currentEnd]))

collapsePageRanges(pages) ==
    IF Len(pages) = 0 THEN <<>>
    ELSE CollapseLoop(pages, 2, pages[1], pages[1], <<>>)

Titles ==
    {"IFRS 15 Summary", "GAAP Guide"}

\* citation lists: any titles and pages, in any order, with repetitions
CitationLists ==
    {[k \in DOMAIN tp |->
        [span_id |-> k, title |-> tp[k][1], page |-> tp[k][2]]] :
            tp \in SeqsUpTo(Titles \X (1..MaxPage), MaxCitations)}

\* the pages of the citations, in the order cited
CitedPages ==
    [k \in DOMAIN cites |-> cites[k].page]

\* callers pass collapsePageRanges sorted, distinct pages
StrictlyIncreasing(pages) ==
    \A j, k \in DOMAIN pages : j < k => pages[j] < pages[k]

CallGroupSpansByTitle ==
    /\ cout.fn = "none"
    /\ cout' = [fn |-> "group", pages |-> <<>>, ranges |-> <<>>,
                groups |-> groupSpansByTitle(cites)]
    /\ UNCHANGED <<cites, extractVars, windowVars, validateVars, cmdVars, callVars, roleVars, runVars, parseVars>>

CallCollapsePageRanges ==
    /\ cout.fn = "none"
    /\ StrictlyIncreasing(CitedPages)
    /\ cout' = [fn |-> "collapse", pages |-> CitedPages,
                ranges |-> collapsePageRanges(CitedPages), groups |-> <<>>]
    /\ UNCHANGED <<cites, extractVars, windowVars, validateVars, cmdVars, callVars, roleVars, runVars, parseVars>>

InitCitations ==
    /\ cites \in CitationLists
    /\ cout = NoCitationOutput
    /\ ExtractIdle /\ WindowIdle /\ ValidateIdle /\ CmdIdle /\ CallIdle /\ RoleIdle /\ RunsIdle /\ ParseIdle

NextCitations ==
    \/ CallGroupSpansByTitle
    \/ CallCollapsePageRanges

SpecCitations ==
    InitCitations /\ [][NextCitations]_vars

\* C8: for a strictly increasing page sequence the ranges of
\* collapsePageRanges have start <= end, are pairwise disjoint and span
\* exactly the input pages; the empty input gives no ranges.
C8_RangesCoverInputExactly ==
    cout.fn = "collapse" =>
        /\ \A r \in DOMAIN cout.ranges : cout.ranges[r].start <= cout.ranges[r].end
        /\ \A r, q \in DOMAIN cout.ranges :
            r # q => (cout.ranges[r].start..cout.ranges[r].end)
                     \cap (cout.ranges[q].start..cout.ranges[q].end) = {}
        /\ UNION {cout.ranges[r].start..cout.ranges[r].end : r \in DOMAIN cout.ranges}
           = Range(cout.pages)
        /\ cout.pages = <<>> => cout.ranges = <<>>

\* pages with a run, a gap and a single page are collapsed to two ranges
C8_Witness ==
    /\ cout.fn = "collapse"
    /\ Len(cout.pages) = 4 /\ Len(cout.ranges) = 2
    /\ cout.ranges[1].start < cout.ranges[1].end
    /\ cout.ranges[2].start = cout.ranges[2].end

FirstIndex(title) ==
    CHOOSE k \in DOMAIN cites :
        cites[k].title = title /\ \A j \in 1..(k - 1) : cites[j].title # title

\* C9: groupSpansByTitle returns one group per distinct title, in the order
\* of the titles' first occurrences; a group's pages are the distinct pages
\* cited for its title, ascending.
C9_GroupsInFirstAppearanceOrder ==
    cout.fn = "group" =>
        /\ {cout.groups[g].title : g \in DOMAIN cout.groups}
           = {cites[k].title : k \in DOMAIN cites}
        /\ \A g, h \in DOMAIN cout.groups :
            g < h => /\ cout.groups[g].title # cout.groups[h].title
                     /\ FirstIndex(cout.groups[g].title) < FirstIndex(cout.groups[h].title)
        /\ \A g \in DOMAIN cout.groups :
            LET pages == cout.groups[g].pages
            IN  /\ Range(pages) = {cites[k].page : k \in
                                    {j \in DOMAIN cites : cites[j].title = cout.groups[g].title}}
                /\ \A j, k \in DOMAIN pages : j < k => pages[j] < pages[k]

\* the title cited first sorts last and is cited again at the end, with its
\* pages given in descending order and one of them twice
C9_Witness ==
    /\ cout.fn = "group"
    /\ Len(cites) = 4
    /\ cites[1].title = "IFRS 15 Summary" /\ cites[2].title = "GAAP Guide"
    /\ cites[3].title = "IFRS 15 Summary" /\ cites[4].title = "IFRS 15 Summary"
    /\ cites[1].page > cites[3].page /\ cites[4].page = cites[1].page
    /\ cout.groups[1].title = "IFRS 15 Summary"

----------------------------------------------------------------------------
(* Validation rules *)

MaxQuoteChars ==
    300

MsgStepNumbers ==
    "Step numbers must be consecutive starting from 1"

MsgQuotes ==
    "Text contains quotes longer than the maximum"

\* { field, message }
ValidationError(field, message) ==
    [field |-> field, message |-> message]

\* { field: `name[${index}]`, message }
IndexedError(field, index, message) ==
    [field |-> field, index |-> index, message |-> message]

\* !text?.trim()
IsBlank(text) ==
    Trim(text) = <<>>

\* Array.from({ length }, (_, i) => i + 1)
ExpectedNumbers(length) ==
    [k \in 1..length |-> k]

\* a.length === b.length && a.every((val, index) => val === b[index])
arraysEqual(a, b) ==
    Len(a) = Len(b) /\ \A k \in DOMAIN a : a[k] = b[k]

\* the lengths of the matches of /"[^"]*"/g, quotation marks included
RECURSIVE QuoteLengths(_, _)
QuoteLengths(text, acc) ==
    LET opening == {k \in DOMAIN text : text[k] = "\""}
    IN  IF opening = {} THEN acc
        ELSE LET open == CHOOSE k \in opening : \A j \in opening : k <= j
                 closing == {k \in opening : k > open}
             IN  IF closing = {} THEN acc
                 ELSE LET close == CHOOSE k \in closing : \A j \in closing : k <= j
                      IN  QuoteLengths(SubSeq(text, close + 1, Len(text)),
                                       Append(acc, close - open + 1))

\* a quotation as long as the limit counts as excessive
hasExcessiveQuotesInclusive(text, maxQuoteChars) ==
    \E k \in DOMAIN QuoteLengths(text, <<>>) : QuoteLengths(text, <<>>)[k] >= maxQuoteChars

hasExcessiveQuotes(text, maxQuoteChars) ==
    \E k \in DOMAIN QuoteLengths(text, <<>>) : QuoteLengths(text, <<>>)[k] > maxQuoteChars

\* the step checks of validateFunction
StepErrors(steps) ==
    IF Len(steps) = 0
    THEN <<ValidationError("steps", "At least one step is required")>>
    ELSE LET stepNumbers == SortAscending([k \in DOMAIN steps |-> steps[k].n])
             numbering == IF ~arraysEqual(stepNumbers, ExpectedNumbers(Len(stepNumbers)))
                          THEN <<ValidationError("steps", MsgStepNumbers)>>
                          ELSE <<>>
             blank == SelectSeq([k \in DOMAIN steps |-> k], LAMBDA k : IsBlank(steps[k].text))
         IN  numbering \o [b \in DOMAIN blank |->
                 IndexedError("steps.text", blank[b] - 1, "Step text cannot be empty")]

\* the quote check of validateFunction over name, purpose, preconditions, failure_modes
FunctionQuoteErrors(f) ==
    LET fields == <<f.name, f.purpose>> \o f.preconditions \o f.failure_modes
        bad == SelectSeq([k \in DOMAIN fields |-> k],
                   LAMBDA k : fields[k] # <<>> /\ hasExcessiveQuotes(fields[k], MaxQuoteChars))
    IN  [b \in DOMAIN bad |->
            IndexedError("field", bad[b] - 1, MsgQuotes)]

validateFunction(f) ==
    LET errs ==
            (IF IsBlank(f.name)
             THEN <<ValidationError("name", "Function name is required")>>
             ELSE <<>>)
            \o (IF IsBlank(f.purpose)
                THEN <<ValidationError("purpose", "Function purpose is required")>>
                ELSE IF Len(f.purpose) > 400
                THEN <<ValidationError("purpose", "Purpose must be <= 400 characters")>>
                ELSE <<>>)
            \o StepErrors(f.steps)
            \o (IF Len(f.span_ids) = 0
                THEN <<ValidationError("span_ids",
                                       "At least one span_id is required for citations")>>
                ELSE <<>>)
            \o (IF f.confidence < ConfidenceFunctions
                THEN <<ValidationError("confidence", "Confidence below threshold")>>
                ELSE <<>>)
            \o FunctionQuoteErrors(f)
    IN  [valid |-> Len(errs) = 0, errors |-> errs]

\* the quote check of validateClaim over subject, predicate, object
ClaimQuoteErrors(c) ==
    LET fields == <<c.subject, c.predicate, c.object>>
        fieldNames == <<"subject", "predicate", "object">>
        bad == SelectSeq([k \in DOMAIN fields |-> k],
                   LAMBDA k : hasExcessiveQuotes(fields[k], MaxQuoteChars))
    IN  [b \in DOMAIN bad |-> ValidationError(fieldNames[bad[b]], MsgQuotes)]

validateClaim(c) ==
    LET errs ==
            (IF IsBlank(c.subject)
             THEN <<ValidationError("subject", "Claim subject is required")>>
             ELSE <<>>)
            \o (IF IsBlank(c.predicate)
                THEN <<ValidationError("predicate", "Claim predicate is required")>>
                ELSE <<>>)
            \o (IF IsBlank(c.object)
                THEN <<ValidationError("object", "Claim object is required")>>
                ELSE <<>>)
            \o (IF Len(c.span_ids) = 0
                THEN <<ValidationError("span_ids",
                                       "At least one span_id is required for citations")>>
                ELSE <<>>)
            \o (IF c.confidence < ConfidenceClaims
                THEN <<ValidationError("confidence", "Confidence below threshold")>>
                ELSE <<>>)
            \o ClaimQuoteErrors(c)
    IN  [valid |-> Len(errs) = 0, errors |-> errs]

\* the quote check of validateDefinition over term, definition, aliases
DefinitionQuoteErrors(d) ==
    LET fields == <<d.term, d.definition>> \o d.aliases
        bad == SelectSeq([k \in DOMAIN fields |-> k],
                   LAMBDA k : fields[k] # <<>> /\ hasExcessiveQuotes(fields[k], MaxQuoteChars))
    IN  [b \in DOMAIN bad |->
            IF bad[b] = 1 THEN ValidationError("term", MsgQuotes)
            ELSE IF bad[b] = 2 THEN ValidationError("definition", MsgQuotes)
            ELSE IndexedError("aliases", bad[b] - 3, MsgQuotes)]

validateDefinition(d) ==
    LET errs ==
            (IF IsBlank(d.term)
             THEN <<ValidationError("term", "Definition term is required")>>
             ELSE IF Len(d.term) > 120
             THEN <<ValidationError("term", "Term must be <= 120 characters")>>
             ELSE <<>>)
            \o (IF IsBlank(d.definition)
                THEN <<ValidationError("definition", "Definition text is required")>>
                ELSE <<>>)
            \o (IF Len(d.span_ids) = 0
                THEN <<ValidationError("span_ids",
                                       "At least one span_id is required for citations")>>
                ELSE <<>>)
            \o (IF d.confidence < ConfidenceDefinitions
                THEN <<ValidationError("confidence", "Confidence below threshold")>>
                ELSE <<>>)
            \o DefinitionQuoteErrors(d)
    IN  [valid |-> Len(errs) = 0, errors |-> errs]

\* FunctionDocs whose steps carry any numbers in any order
FunctionDocs ==
    {[name |-> <<"f">>, purpose |-> <<"p">>,
      steps |-> [k \in DOMAIN ns |-> [n |-> ns[k], text |-> <<"x">>]],
      preconditions |-> <<>>, failure_modes |-> <<>>,
      span_ids |-> <<"s1">>, confidence |-> c] :
        ns \in SeqsUpTo(1..MaxStepNumber, MaxSteps), c \in {70, 90}}

CallValidateFunction ==
    /\ vout.fn = "none" /\ func # NoFunctionDoc
    /\ vout' = [fn |-> "function"] @@ validateFunction(func)
    /\ UNCHANGED <<func, claim, defn, extractVars, windowVars, citeVars, cmdVars, callVars, roleVars, runVars, parseVars>>

InitValidate ==
    /\ func \in FunctionDocs
    /\ claim = NoClaim /\ defn = NoDefinition
    /\ vout = NoValidation
    /\ ExtractIdle /\ WindowIdle /\ CiteIdle /\ CmdIdle /\ CallIdle /\ RoleIdle /\ RunsIdle /\ ParseIdle

NextValidate ==
    \/ CallValidateFunction

SpecValidate ==
    InitValidate /\ [][NextValidate]_vars

StepNumberingReported ==
    \E e \in DOMAIN vout.errors :
        vout.errors[e].field = "steps" /\ vout.errors[e].message = MsgStepNumbers

\* C10: validateFunction reports the step-numbering error exactly when the
\* step numbers, as a multiset, are not {1, ..., N} for N steps; the order in
\* which the steps are listed does not matter.
C10_StepNumberingExactlyOneToN ==
    vout.fn = "function" =>
        (StepNumberingReported <=>
            ~(\A m \in 1..Len(func.steps) :
                Cardinality({k \in DOMAIN func.steps : func.steps[k].n = m}) = 1))

\* five steps numbered 1..5 listed out of order pass the numbering check
C10_Witness ==
    /\ vout.fn = "function"
    /\ Len(func.steps) = 5
    /\ func.steps[1].n = 3 /\ func.steps[2].n = 5 /\ func.steps[5].n = 1
    /\ {func.steps[k].n : k \in DOMAIN func.steps} = 1..5
    /\ ~StepNumberingReported

----------------------------------------------------------------------------
(* Quote-length guard of the three validators *)

\* a quotation of n characters between two quotation marks
Quoted(n) ==
    <<"\"">> \o [k \in 1..n |-> "x"] \o <<"\"">>

\* field texts around the limit: no quotation; quotations whose text is two
\* under, one under, at and one over maxQuoteChars; a short quotation
\* followed by one at the limit; an opening mark that is never closed
QuoteTexts ==
    {<<"x">>,
     Quoted(MaxQuoteChars - 2),
     <<"a", " ">> \o Quoted(MaxQuoteChars - 1) \o <<".">>,
     Quoted(MaxQuoteChars),
     Quoted(MaxQuoteChars + 1),
     <<"\"", "a", "\"", " ">> \o Quoted(MaxQuoteChars - 2),
     <<"\"">> \o [k \in 1..(MaxQuoteChars + 2) |-> "x"]}

ShortTexts ==
    {<<"x">>, Quoted(1)}

OptionalTexts ==
    {<<>>} \cup {<<t>> : t \in QuoteTexts}

QuoteFunctionDocs ==
    {[name |-> n, purpose |-> p,
      steps |-> <<[n |-> 1, text |-> t]>>,
      preconditions |-> pre, failure_modes |-> fm,
      span_ids |-> <<"s1">>, confidence |-> 90] :
        n \in ShortTexts, p \in QuoteTexts, t \in QuoteTexts,
        pre \in OptionalTexts, fm \in OptionalTexts}

QuoteClaims ==
    {[subject |-> sb, predicate |-> pr, object |-> ob,
      span_ids |-> <<"s1">>, confidence |-> 90] :
        sb \in QuoteTexts, pr \in QuoteTexts, ob \in QuoteTexts}

QuoteDefinitions ==
    {[term |-> t, definition |-> d, aliases |-> al,
      span_ids |-> <<"s1">>, confidence |-> 90] :
        t \in QuoteTexts, d \in QuoteTexts,
        al \in OptionalTexts \cup {<<(<<"x">>)>> \o o : o \in OptionalTexts}}

CallValidateClaim ==
    /\ vout.fn = "none" /\ claim # NoClaim
    /\ vout' = [fn |-> "claim"] @@ validateClaim(claim)
    /\ UNCHANGED <<func, claim, defn, extractVars, windowVars, citeVars, cmdVars, callVars, roleVars, runVars, parseVars>>

CallValidateDefinition ==
    /\ vout.fn = "none" /\ defn # NoDefinition
    /\ vout' = [fn |-> "definition"] @@ validateDefinition(defn)
    /\ UNCHANGED <<func, claim, defn, extractVars, windowVars, citeVars, cmdVars, callVars, roleVars, runVars, parseVars>>

InitQuotes ==
    /\ \/ func \in QuoteFunctionDocs /\ claim = NoClaim /\ defn = NoDefinition
       \/ func = NoFunctionDoc /\ claim \in QuoteClaims /\ defn = NoDefinition
       \/ func = NoFunctionDoc /\ claim = NoClaim /\ defn \in QuoteDefinitions
    /\ vout = NoValidation
    /\ ExtractIdle /\ WindowIdle /\ CiteIdle /\ CmdIdle /\ CallIdle /\ RoleIdle /\ RunsIdle /\ ParseIdle

NextQuotes ==
    \/ CallValidateFunction
    \/ CallValidateClaim
    \/ CallValidateDefinition

SpecQuotes ==
    InitQuotes /\ [][NextQuotes]_vars

\* the number of characters between the marks of the longest quotation of a
\* text (quotations pair the marks left to right); -1 when it has none
LongestQuotedText(text) ==
    LET marks == {k \in DOMAIN text : text[k] = "\""}
        opens == {k \in marks : Cardinality({j \in marks : j < k}) % 2 = 0}
        closed == {k \in opens : \E j \in marks : j > k}
        inner(k) == (CHOOSE j \in marks : j > k /\ \A m \in marks : m > k => j <= m) - k - 1
    IN  IF closed = {} THEN -1
        ELSE CHOOSE n \in {inner(k) : k \in closed} : \A k \in closed : inner(k) <= n

\* the fields the validator that ran checks for quotations, each with the
\* error entry it is reported under
CheckedFields ==
    IF vout.fn = "function"
    THEN LET fields == <<func.name, func.purpose>> \o func.preconditions \o func.failure_modes
         IN  {[text |-> fields[k], error |-> IndexedError("field", k - 1, MsgQuotes)] :
                 k \in DOMAIN fields}
    ELSE IF vout.fn = "claim"
    THEN {[text |-> claim.subject, error |-> ValidationError("subject", MsgQuotes)],
          [text |-> claim.predicate, error |-> ValidationError("predicate", MsgQuotes)],
          [text |-> claim.object, error |-> ValidationError("object", MsgQuotes)]}
    ELSE IF vout.fn = "definition"
    THEN {[text |-> defn.term, error |-> ValidationError("term", MsgQuotes)],
          [text |-> defn.definition, error |-> ValidationError("definition", MsgQuotes)]}
         \cup {[text |-> defn.aliases[k], error |-> IndexedError("aliases", k - 1, MsgQuotes)] :
                 k \in DOMAIN defn.aliases}
    ELSE {}

Reported(error) ==
    \E e \in DOMAIN vout.errors : vout.errors[e] = error

\* C11 (as claimed): a checked field whose quoted text, between the marks, is
\* longer than maxQuoteChars is reported, and one whose longest quoted text
\* has exactly maxQuoteChars characters gets no quote-length error.
C11_QuotedTextAtLimitPasses ==
    \A f \in CheckedFields :
        /\ LongestQuotedText(f.text) > MaxQuoteChars => Reported(f.error) /\ ~vout.valid
        /\ LongestQuotedText(f.text) = MaxQuoteChars => ~Reported(f.error)

\* C11 (amended): the length that is compared with maxQuoteChars counts the
\* two quotation marks: a checked field is reported for its quotations exactly
\* when its longest quoted text has more than maxQuoteChars - 2 characters.
C11_QuotationWithMarksAtLimitPasses ==
    \A f \in CheckedFields :
        /\ Reported(f.error) <=> LongestQuotedText(f.text) + 2 > MaxQuoteChars
        /\ Reported(f.error) => ~vout.valid

\* a claim whose subject quotes maxQuoteChars - 2 characters and whose object
\* quotes maxQuoteChars - 1: only the object is reported
C11_Witness ==
    /\ vout.fn = "claim"
    /\ LongestQuotedText(claim.subject) = MaxQuoteChars - 2
    /\ LongestQuotedText(claim.predicate) = -1
    /\ LongestQuotedText(claim.object) = MaxQuoteChars - 1
    /\ Len(vout.errors) = 1
    /\ Reported(ValidationError("object", MsgQuotes))

\* C12: validateFunction reports a FunctionDoc invalid, with a quote-length
\* error, whenever the name, the purpose, a precondition, a failure mode or
\* the text of a step holds a quotation of more than maxQuoteChars characters.
C12_StepTextQuotationReported ==
    vout.fn = "function" =>
        LET texts == {func.name, func.purpose}
                     \cup {func.preconditions[k] : k \in DOMAIN func.preconditions}
                     \cup {func.failure_modes[k] : k \in DOMAIN func.failure_modes}
                     \cup {func.steps[k].text : k \in DOMAIN func.steps}
        IN  (\E t \in texts : LongestQuotedText(t) > MaxQuoteChars) =>
                /\ ~vout.valid
                /\ \E e \in DOMAIN vout.errors : vout.errors[e].message = MsgQuotes

----------------------------------------------------------------------------
(* The extract, validate and load commands and the ingest-document pipeline *)

MaxLines ==
    2

MaxCommands ==
    3

UnitTypes ==
    <<"functions", "claims", "definitions">>

\* span id lists a model may cite: none, one stored id, and a list that mixes
\* a stored id with ids of no span, one of them twice
CitedNone ==
    <<>>

CitedKnown ==
    <<"s1">>

CitedUnknown ==
    <<"s9", "s1", "s8", "s9">>

\* units as the extractors return them: they passed the schema and the
\* confidence filter of their extractor
ExtractedFunctions ==
    {f \in {[name |-> <<"f">>, purpose |-> <<"p">>, steps |-> st,
             preconditions |-> <<>>, failure_modes |-> <<>>,
             span_ids |-> ids, confidence |-> 90] :
                st \in {<<[n |-> 1, text |-> <<"x">>]>>, <<[n |-> 2, text |-> <<"x">>]>>},
                ids \in {CitedKnown}} :
        FunctionSchemaOk(f) /\ FunctionGate(f)}

ExtractedClaims ==
    {c \in {[subject |-> <<"a">>, predicate |-> <<"i", "s">>, object |-> <<"o">>,
             span_ids |-> ids, confidence |-> 90] :
                ids \in {CitedNone, CitedKnown, CitedUnknown}} :
        ClaimSchemaOk(c) /\ ClaimGate(c)}

ExtractedDefinitions ==
    {d \in {[term |-> <<"R">>, definition |-> <<"a", " ", "s", "u", "m">>,
             aliases |-> <<>>, span_ids |-> ids, confidence |-> 90] :
                ids \in {<<"s2">>}} :
        DefinitionSchemaOk(d) /\ DefinitionGates(d)}

\* variant: the check stops at the first id and ignores the rest
validateAllSpanIdsFirstOnly(spanIds, validSpanIds) ==
    LET invalidIds == IF Len(spanIds) > 0 /\ spanIds[1] \notin validSpanIds
                      THEN <<spanIds[1]>> ELSE <<>>
        errs == IF Len(invalidIds) > 0
                THEN <<[field |-> "span_ids", message |-> "Invalid span IDs",
                        value |-> invalidIds]>>
                ELSE <<>>
    IN  [valid |-> Len(errs) = 0, errors |-> errs]

\* validateAllSpanIds(spanIds, validSpanIds)
validateAllSpanIds(spanIds, validSpanIds) ==
    LET invalidIds == SelectSeq(spanIds, LAMBDA id : id \notin validSpanIds)
        errs == IF Len(invalidIds) > 0
                THEN <<[field |-> "span_ids", message |-> "Invalid span IDs",
                        value |-> invalidIds]>>
                ELSE <<>>
    IN  [valid |-> Len(errs) = 0, errors |-> errs]

\* the body of validateCommand's loop for one line of a draft file
\* const isValid = validationResult.valid && spanValidation.valid, and the
\* errors printed for the line
LineVerdict(file, lineNum, unit, validationResult, spanValidation) ==
    [file |-> file, line |-> lineNum, unit |-> unit,
     valid |-> validationResult.valid /\ spanValidation.valid,
     errors |-> validationResult.errors \o spanValidation.errors]

ValidateLine(file, lineNum, unit, validSpanIds) ==
    LineVerdict(file, lineNum, unit,
                IF file = "functions" THEN validateFunction(unit)
                ELSE IF file = "claims" THEN validateClaim(unit)
                ELSE validateDefinition(unit),
                validateAllSpanIds(unit.span_ids, validSpanIds))

ValidateFile(file, lines, validSpanIds) ==
    [k \in DOMAIN lines |-> ValidateLine(file, k, lines[k], validSpanIds)]

RECURSIVE CountErrors(_)
CountErrors(verdicts) ==
    IF verdicts = <<>> THEN 0
    ELSE (IF Head(verdicts).valid THEN 0 ELSE Len(Head(verdicts).errors))
         + CountErrors(Tail(verdicts))

\* validateCommand: what it counts, prints and exits with
\* the files in the order validateCommand reads them
ValidatedFiles ==
    <<"functions", "claims", "definitions">>

RECURSIVE ValidateFiles(_, _, _)
ValidateFiles(files, validSpanIds, k) ==
    IF k > Len(ValidatedFiles) THEN <<>>
    ELSE ValidateFile(ValidatedFiles[k], files[ValidatedFiles[k]], validSpanIds)
         \o ValidateFiles(files, validSpanIds, k + 1)

\* the summary: totalUnits, validUnits, totalErrors and the exit code
ValidationSummary(verdicts, validUnits, strict) ==
    [ran |-> TRUE, strict |-> strict, verdicts |-> verdicts,
     totalUnits |-> Len(verdicts), validUnits |-> validUnits,
     totalErrors |-> CountErrors(verdicts),
     exit |-> IF strict /\ validUnits # Len(verdicts) THEN 1 ELSE 0]

CountValid(verdicts) ==
    Cardinality({k \in DOMAIN verdicts : verdicts[k].valid})

SummaryOf(verdicts, strict) ==
    ValidationSummary(verdicts, CountValid(verdicts), strict)

ValidateReport(files, validSpanIds, strict) ==
    IF validSpanIds = {}
    THEN [ran |-> TRUE, strict |-> strict, verdicts |-> <<>>, totalUnits |-> 0,
          validUnits |-> 0, totalErrors |-> 0, exit |-> 1]
    ELSE SummaryOf(ValidateFiles(files, validSpanIds, 1), strict)

\* extractCommand: a file is written for each requested type that has units
ExtractFiles(files, validSpanIds, unitTypes) ==
    IF validSpanIds = {} THEN files
    ELSE [t \in DOMAIN files |->
            IF t \in unitTypes /\ Len(extracted[t]) > 0 THEN extracted[t] ELSE files[t]]

\* lines.map(line => ({...JSON.parse(line), documentId}))
LoadRows(lines, docId) ==
    [k \in DOMAIN lines |-> [documentId |-> docId, unit |-> lines[k]]]

\* loadCommand: every line of every draft file is inserted
LoadTables(tables, files, docId) ==
    [t \in DOMAIN tables |-> tables[t] \o LoadRows(files[t], docId)]

ExtractCommand ==
    /\ ncmds < MaxCommands
    /\ \E unitTypes \in (SUBSET {"functions", "claims", "definitions"}) \ {{}} :
          draftFiles' = ExtractFiles(draftFiles, storedSpans, unitTypes)
    /\ ncmds' = ncmds + 1
    /\ UNCHANGED <<storedSpans, extracted, db, report>>
    /\ UNCHANGED <<extractVars, windowVars, citeVars, validateVars, callVars, roleVars, runVars, parseVars>>

ValidateCommand ==
    /\ ncmds < MaxCommands
    /\ \E strict \in BOOLEAN :
          report' = ValidateReport(draftFiles, storedSpans, strict)
    /\ ncmds' = ncmds + 1
    /\ UNCHANGED <<storedSpans, extracted, draftFiles, db>>
    /\ UNCHANGED <<extractVars, windowVars, citeVars, validateVars, callVars, roleVars, runVars, parseVars>>

LoadCommand ==
    /\ ncmds < MaxCommands
    /\ db' = LoadTables(db, draftFiles, "doc1")
    /\ ncmds' = ncmds + 1
    /\ UNCHANGED <<storedSpans, extracted, draftFiles, report>>
    /\ UNCHANGED <<extractVars, windowVars, citeVars, validateVars, callVars, roleVars, runVars, parseVars>>

\* the load step runs when the validate step exited with 0
PipelineLoad(files, rep) ==
    /\ draftFiles' = files
    /\ report' = rep
    /\ db' = IF rep.exit = 0 THEN LoadTables(db, files, "doc1") ELSE db

\* the validate step reads the files the extract step wrote
PipelineValidate(files, strict) ==
    PipelineLoad(files, ValidateReport(files, storedSpans, strict))

\* runPipeline after its ingest step: extract, validate, load, each run to
\* its end; a command that exits non-zero ends the pipeline
RunPipeline ==
    /\ ncmds < MaxCommands
    /\ \E unitTypes \in (SUBSET {"functions", "claims", "definitions"}) \ {{}},
          strict \in BOOLEAN :
          IF storedSpans = {}
          THEN UNCHANGED <<draftFiles, report, db>>
          ELSE PipelineValidate(ExtractFiles(draftFiles, storedSpans, unitTypes), strict)
    /\ ncmds' = ncmds + 1
    /\ UNCHANGED <<storedSpans, extracted>>
    /\ UNCHANGED <<extractVars, windowVars, citeVars, validateVars, callVars, roleVars, runVars, parseVars>>

InitCommands ==
    /\ storedSpans \in {{}, {"s1"}, {"s1", "s2"}}
    /\ extracted \in [functions : SeqsUpTo(ExtractedFunctions, 1),
                      claims : SeqsUpTo(ExtractedClaims, MaxLines),
                      definitions : SeqsUpTo(ExtractedDefinitions, 1)]
    /\ draftFiles = NoUnits
    /\ db = NoUnits
    /\ report = NoReport
    /\ ncmds = 0
    /\ ExtractIdle /\ WindowIdle /\ CiteIdle /\ ValidateIdle /\ CallIdle /\ RoleIdle /\ RunsIdle /\ ParseIdle

NextCommands ==
    \/ ExtractCommand
    \/ ValidateCommand
    \/ LoadCommand
    \/ RunPipeline

SpecCommands ==
    InitCommands /\ [][NextCommands]_vars

\* the ids of a unit's span_ids that belong to no stored span, in list order
UnknownIds(unit) ==
    SelectSeq(unit.span_ids, LAMBDA id : id \notin storedSpans)

\* C13: a unit the validate command counts as valid cites at least one span
\* and only stored spans of the document; a unit with an empty span_ids list
\* or with an unknown id is counted invalid, and its span-id error names
\* exactly the unknown ids; validUnits is the number of units counted valid.
C13_ValidUnitsCiteStoredSpans ==
    /\ \A k \in DOMAIN report.verdicts :
          LET v == report.verdicts[k]
              named == {e \in DOMAIN v.errors : v.errors[e].message = "Invalid span IDs"}
          IN  /\ v.valid => /\ Len(v.unit.span_ids) > 0
                            /\ \A j \in DOMAIN v.unit.span_ids :
                                  v.unit.span_ids[j] \in storedSpans
              /\ Len(v.unit.span_ids) = 0 => ~v.valid
              /\ UnknownIds(v.unit) # <<>> =>
                    /\ ~v.valid
                    /\ Cardinality(named) = 1
                    /\ \A e \in named : v.errors[e].value = UnknownIds(v.unit)
              /\ UnknownIds(v.unit) = <<>> => named = {}
    /\ report.validUnits = Cardinality({k \in DOMAIN report.verdicts : report.verdicts[k].valid})
    /\ report.totalUnits = Len(report.verdicts)

\* a validate run over a file with a claim citing one stored span and a claim
\* citing a stored span among unknown ones: one valid, one invalid
C13_Witness ==
    /\ report.ran /\ report.exit = 0
    /\ \E j, k \in DOMAIN report.verdicts :
          /\ report.verdicts[j].unit.span_ids = CitedKnown /\ report.verdicts[j].valid
          /\ report.verdicts[k].unit.span_ids = CitedUnknown /\ ~report.verdicts[k].valid
          /\ \E e \in DOMAIN report.verdicts[k].errors :
                report.verdicts[k].errors[e].value = <<"s9", "s8", "s9">>

\* what the validators and the span-id cross-check say of a stored row
PassesValidation(file, unit) ==
    /\ IF file = "functions" THEN validateFunction(unit).valid
       ELSE IF file = "claims" THEN validateClaim(unit).valid
       ELSE validateDefinition(unit).valid
    /\ \A j \in DOMAIN unit.span_ids : unit.span_ids[j] \in storedSpans

\* C14: whatever extract, validate and load commands and pipeline runs have
\* taken place, every unit in the database passes validateFunction,
\* validateClaim or validateDefinition and the span-id cross-check.
C14_OnlyValidatedUnitsStored ==
    \A t \in DOMAIN db : \A k \in DOMAIN db[t] : PassesValidation(t, db[t][k].unit)

----------------------------------------------------------------------------
(* Quality gates and the response schema *)

\* a definition draft that a unit-level quality gate rejects
FailsQualityGate(d) ==
    Len(d.span_ids) < 1 \/ Len(d.span_ids) > 3 \/ Len(d.definition) > 400

\* C15: when the response of a definitions window is valid JSON and one of
\* its drafts fails a quality gate (span_ids count outside 1..3, definition
\* longer than 400), no error is recorded for that window and every other
\* draft of the response that passes the gates and the threshold has its
\* key among the units.
C15_GateFailingDraftDroppedAlone ==
    (/\ kind = "definitions" /\ attempted # <<>>
     /\ response.status = "ok" /\ response.parsable
     /\ \E k \in DOMAIN response.drafts : FailsQualityGate(response.drafts[k]))
    => /\ \A e \in DOMAIN errors : errors[e].window # attempted[Len(attempted)]
       /\ \A k \in DOMAIN response.drafts :
             (~FailsQualityGate(response.drafts[k])
                /\ response.drafts[k].confidence >= ConfidenceDefinitions)
             => \E j \in DOMAIN results :
                   results[j].term_slug = createTermSlug(response.drafts[k].term)

----------------------------------------------------------------------------
(* callClaude: the request loop inside one window's model call *)

\* maxRetries: number = 3
MaxRetries ==
    3

\* what one request can end in: a 2xx answer with content, a 429, another
\* non-2xx status, or a 2xx answer whose body carries an error (whose message
\* may or may not contain the characters 429); a rejected fetch takes the
\* same path as the error body
Answers ==
    {[kind |-> "ok", mentions429 |-> FALSE],
     [kind |-> "429", mentions429 |-> TRUE],
     [kind |-> "http", mentions429 |-> FALSE],
     [kind |-> "body", mentions429 |-> FALSE],
     [kind |-> "body", mentions429 |-> TRUE]}

\* variant: a failure that is not a 429 is thrown to the caller at once
AfterAnswerThrowsAtOnce(answer, att) ==
    IF answer.kind = "ok" THEN [cpc |-> "returned", attempt |-> att, lastError |-> lastError]
    ELSE IF answer.kind = "429" /\ att < MaxRetries
    THEN [cpc |-> "backoff", attempt |-> att, lastError |-> lastError]
    ELSE [cpc |-> "thrown", attempt |-> att, lastError |-> answer]

\* one iteration of the for loop from the answer to its next await, return
\* or throw
AfterAnswer(answer, att) ==
    IF answer.kind = "ok"
    THEN [cpc |-> "returned", attempt |-> att, lastError |-> lastError]
    ELSE IF answer.kind = "429" /\ att < MaxRetries
    THEN [cpc |-> "backoff", attempt |-> att, lastError |-> lastError]
    ELSE \* throw new Error(...), caught by the catch of the same iteration
         IF att = MaxRetries
         THEN [cpc |-> "thrown", attempt |-> att, lastError |-> answer]
         ELSE IF ~answer.mentions429
         THEN [cpc |-> "pause", attempt |-> att, lastError |-> answer]
         ELSE [cpc |-> "fetch", attempt |-> att + 1, lastError |-> answer]

\* variant: the loop does not advance its counter
AfterSleepSameAttempt(att) ==
    [cpc |-> "fetch", attempt |-> att]

\* attempt++ and the loop test attempt <= maxRetries; throw lastError after it
AfterSleep(att) ==
    [cpc |-> IF att + 1 <= MaxRetries THEN "fetch" ELSE "thrown", attempt |-> att + 1]

\* drafts a window's answer may hold, per extractor
CallDrafts ==
    [definitions |-> {d \in DefinitionDrafts : d.confidence = 95 /\ d.term # TermRatioDot},
     formulas |-> {d \in FormulaDrafts : d.confidence = 90 /\ d.expression # ExprLower},
     functions |-> {d \in FunctionDrafts : d.confidence = 90 /\ d.steps = StepsOne},
     claims |-> {d \in ClaimDrafts : d.confidence = 90}]

\* the content of a 2xx answer: not JSON, or a JSON array of at most one draft
CallContents(k) ==
    {r \in Responses(CallDrafts[k]) : r.status = "ok" /\ Len(r.drafts) <= 1}

\* const response = await callClaude(...): the first request goes out
StartCallClaude ==
    /\ kind \in Kinds /\ pc = "call" /\ i < numWindows /\ cpc = "idle"
    /\ cpc' = "fetch" /\ attempt' = 0 /\ lastError' = NoError /\ httpLog' = <<>>
    /\ attempted' = Append(attempted, i + 1)
    /\ UNCHANGED <<kind, documentId, numWindows, i, results, errors, seen, response,
                   nextId, pc>>
    /\ UNCHANGED <<windowVars, citeVars, validateVars, cmdVars, roleVars, runVars, parseVars>>

\* the fetch settles
FetchSettles ==
    /\ cpc = "fetch"
    /\ \E answer \in Answers :
          /\ httpLog' = Append(httpLog, answer)
          /\ cpc' = AfterAnswer(answer, attempt).cpc
          /\ attempt' = AfterAnswer(answer, attempt).attempt
          /\ lastError' = AfterAnswer(answer, attempt).lastError
    /\ UNCHANGED <<extractVars, windowVars, citeVars, validateVars, cmdVars, roleVars, runVars, parseVars>>

\* the backoff timer (2^attempt * 2000 + random ms) or the 1000 ms pause fires
SleepElapses ==
    /\ cpc \in {"backoff", "pause"}
    /\ cpc' = AfterSleep(attempt).cpc
    /\ attempt' = AfterSleep(attempt).attempt
    /\ UNCHANGED <<lastError, httpLog>>
    /\ UNCHANGED <<extractVars, windowVars, citeVars, validateVars, cmdVars, roleVars, runVars, parseVars>>

\* callClaude threw: the extractor's catch
CallThrown ==
    /\ cpc = "thrown"
    /\ response' = [status |-> "throw", parsable |-> FALSE, drafts |-> <<>>]
    /\ WindowFails(MsgCall)
    /\ cpc' = "idle"
    /\ UNCHANGED <<kind, documentId, numWindows, attempted, attempt, lastError, httpLog>>
    /\ UNCHANGED <<windowVars, citeVars, validateVars, cmdVars, roleVars, runVars, parseVars>>

\* callClaude returned: parseJsonResponse, the filters, results.push
CallReturned ==
    /\ cpc = "returned"
    /\ \E r \in CallContents(kind) :
          /\ response' = r
          /\ IF kind = "definitions"
             THEN IF ~ParseOk(r, "DefinitionSchema") THEN WindowFails(MsgParse)
                  ELSE LET f == DefinitionFilter(r.drafts, documentId, seen, <<>>)
                       IN  WindowSucceeds(StampDefinitions(f.kept, documentId, nextId), f.seen)
             ELSE IF kind = "formulas"
             THEN IF ~ParseOk(r, "FormulaSchema") THEN WindowFails(MsgParse)
                  ELSE LET f == FormulaFilter(r.drafts, documentId, seen, <<>>)
                       IN  WindowSucceeds(StampFormulas(f.kept, documentId, nextId), f.seen)
             ELSE IF kind = "functions"
             THEN IF ~ParseOk(r, "FunctionDocSchema") THEN WindowFails(MsgParse)
                  ELSE WindowSucceeds(
                           StampFunctions(SelectSeq(r.drafts, FunctionGate), documentId, nextId),
                           seen)
             ELSE IF ~ParseOk(r, "ClaimSchema") THEN WindowFails(MsgParse)
                  ELSE WindowSucceeds(
                           StampClaims(SelectSeq(r.drafts, ClaimGate), documentId, nextId),
                           seen)
    /\ cpc' = "idle"
    /\ UNCHANGED <<kind, documentId, numWindows, attempted, attempt, lastError, httpLog>>
    /\ UNCHANGED <<windowVars, citeVars, validateVars, cmdVars, roleVars, runVars, parseVars>>

InitCall ==
    /\ kind \in Kinds
    /\ documentId = "doc1"
    /\ numWindows \in 1..MaxWindows
    /\ i = 0
    /\ results = <<>>
    /\ errors = <<>>
    /\ seen = {}
    /\ response = NoResponse
    /\ nextId = 1
    /\ attempted = <<>>
    /\ pc = "call"
    /\ WindowIdle /\ CiteIdle /\ ValidateIdle /\ CmdIdle /\ CallIdle /\ RoleIdle /\ RunsIdle /\ ParseIdle

NextCall ==
    \/ StartCallClaude
    \/ FetchSettles
    \/ SleepElapses
    \/ CallThrown
    \/ CallReturned
    \/ cpc = "idle" /\ RateLimitDelay
    \/ cpc = "idle" /\ ReturnResult

\* every fetch settles and every timer fires
SpecCall ==
    InitCall /\ [][NextCall]_vars /\ WF_vars(NextCall)

Failed(answer) ==
    answer.kind # "ok"

\* C16 (as claimed): another request is issued only after a 429 answer.
C16_RetriesOnlyOnThrottling ==
    \A k \in DOMAIN httpLog : k < Len(httpLog) => httpLog[k].kind = "429"

\* C16 (amended): callClaude issues another request after every failed
\* attempt, throttling or not, while attempts remain: it returns on the first
\* 2xx answer without an error body, throws only when the attempt numbered
\* maxRetries has failed, backs off after a 429, and pauses one second after
\* another failure unless the error message contains "429".
C16_RetriesAfterEveryFailure ==
    /\ \A k \in DOMAIN httpLog : k < Len(httpLog) => Failed(httpLog[k])
    /\ cpc = "returned" => ~Failed(httpLog[Len(httpLog)])
    /\ cpc = "thrown" => /\ Len(httpLog) = MaxRetries + 1
                         /\ Failed(httpLog[Len(httpLog)])
                         /\ lastError = httpLog[Len(httpLog)]
    /\ cpc = "backoff" => httpLog[Len(httpLog)].kind = "429" /\ Len(httpLog) <= MaxRetries
    /\ cpc = "pause" => /\ httpLog[Len(httpLog)].kind \in {"http", "body"}
                        /\ ~httpLog[Len(httpLog)].mentions429
                        /\ Len(httpLog) <= MaxRetries
    /\ (cpc = "fetch" /\ httpLog # <<>>) => Failed(httpLog[Len(httpLog)])

\* a call that got a 500, then an error body, then content
C16_Witness ==
    /\ cpc = "returned"
    /\ Len(httpLog) = 3
    /\ httpLog[1].kind = "http" /\ httpLog[2].kind = "body" /\ httpLog[3].kind = "ok"

AllThrottled ==
    httpLog # <<>> /\ \A k \in DOMAIN httpLog : httpLog[k].kind = "429"

C17Step ==
    cpc = "thrown" =>
        /\ errors' = Append(errors, [window |-> i + 1, message |-> MsgCall])
        /\ i' = i + 1
        /\ results' = results /\ seen' = seen
        /\ pc' = "call" /\ cpc' = "idle"

\* C17: callClaude issues at most maxRetries + 1 requests and then has
\* returned or thrown; a call that sees only 429 answers throws after exactly
\* maxRetries + 1 of them; the extractor records the throw as one error of
\* that window and moves on to the next window, and the run ends.
C17_CallClaudeTerminates ==
    /\ [](Len(httpLog) <= MaxRetries + 1)
    /\ [](AllThrottled => cpc # "returned")
    /\ []((AllThrottled /\ cpc = "thrown") => Len(httpLog) = MaxRetries + 1)
    /\ [][C17Step]_vars
    /\ ((cpc = "fetch") ~> (cpc \in {"returned", "thrown"}))
    /\ ((cpc = "thrown") ~> (cpc = "idle"))
    /\ <>(pc = "done")

\* four 429 answers in the first of two windows: the call has thrown, the
\* window has its one error and the loop stands at the second window
C17_Witness ==
    /\ numWindows = 2 /\ i = 1 /\ pc = "call" /\ cpc = "idle"
    /\ AllThrottled /\ Len(httpLog) = MaxRetries + 1
    /\ Len(errors) = 1 /\ errors[1].window = 1 /\ errors[1].message = MsgCall
    /\ results = <<>>

----------------------------------------------------------------------------
(* The rate-limiting delay between windows *)

\* the step is the model call of a window after the first
LaterWindowCalled ==
    attempted' # attempted /\ attempted # <<>>

\* the step before this one was the rate-limiting timer firing: only that
\* step leaves the loop at a later window with no response in hand
DelayJustElapsed ==
    i > 0 /\ pc = "call" /\ response = NoResponse

\* C18: the model call of window i+1 is always preceded by the rate-limiting
\* delay, whether window i succeeded or ended in a window-level error.
C18_DelayBetweenAllWindows ==
    [][LaterWindowCalled => DelayJustElapsed]_vars

----------------------------------------------------------------------------
\* packages/parsers/src/pdf.ts: the role of one line of page text

\* the characters the regex class \s is tried on
WhitespaceChars ==
    {" ", "\t", "\n", "\r"}

\* text[k], or the empty string past either end of the text
CharAt(text, k) ==
    IF k \in DOMAIN text THEN text[k] ELSE ""

\* where a greedy run of characters of the class, begun at k, stops
SkipChars(text, k, class) ==
    LET stops == {j \in k..Len(text) : text[j] \notin class}
    IN  IF stops = {} THEN Len(text) + 1
        ELSE CHOOSE j \in stops : \A m \in stops : j <= m

\* the text has the word at position k
StartsWithAt(text, k, word) ==
    /\ k + Len(word) - 1 <= Len(text)
    /\ SubSeq(text, k, k + Len(word) - 1) = word

\* /^word\s+\d+/i for a lower-case word
KeywordThenNumber(text, word) ==
    LET r == SkipChars(text, Len(word) + 1, WhitespaceChars)
    IN  /\ Len(word) <= Len(text)
        /\ ToLowerCase(SubSeq(text, 1, Len(word))) = word
        /\ r > Len(word) + 1
        /\ CharAt(text, r) \in Range(DigitChars)

\* /^\d+\.?\s+[A-Z]/
NumberedHeading(text) ==
    LET p == SkipChars(text, 1, Range(DigitChars))
        q == IF CharAt(text, p) = "." THEN p + 1 ELSE p
        r == SkipChars(text, q, WhitespaceChars)
    IN  p > 1 /\ r > q /\ CharAt(text, r) \in Range(UpperChars)

\* /^[A-Z][A-Z\s]{5,}$/
CapitalsHeading(text) ==
    /\ Len(text) >= 6
    /\ text[1] \in Range(UpperChars)
    /\ \A k \in 2..Len(text) : text[k] \in Range(UpperChars) \cup WhitespaceChars

\* /^\d+\.\d+\.?\s+/
SubsectionHeading(text) ==
    LET p == SkipChars(text, 1, Range(DigitChars))
        d == SkipChars(text, p + 1, Range(DigitChars))
        q == IF CharAt(text, d) = "." THEN d + 1 ELSE d
        r == SkipChars(text, q, WhitespaceChars)
    IN  p > 1 /\ CharAt(text, p) = "." /\ d > p + 1 /\ r > q

\* /^[A-Z][^.!?]*[^.!?]$/
TitleHeading(text) ==
    /\ Len(text) >= 2
    /\ text[1] \in Range(UpperChars)
    /\ \A k \in 2..Len(text) : text[k] \notin {".", "!", "?"}

isHeading(text) ==
    IF Len(text) > 200 THEN FALSE
    ELSE \/ NumberedHeading(text)
         \/ CapitalsHeading(text)
         \/ SubsectionHeading(text)
         \/ KeywordThenNumber(text, <<"c", "h", "a", "p", "t", "e", "r">>)
         \/ KeywordThenNumber(text, <<"s", "e", "c", "t", "i", "o", "n">>)
         \/ TitleHeading(text)

\* the one character U+2022 (bullet)
BulletChar ==
    "u2022"

isList(text) ==
    LET p == SkipChars(text, 1, WhitespaceChars)
        d == SkipChars(text, p, Range(DigitChars))
    IN  \* /^\s*[-\u2022*]\s+/
        \/ /\ CharAt(text, p) \in {"-", BulletChar, "*"}
           /\ CharAt(text, p + 1) \in WhitespaceChars
        \* /^\s*\d+\.\s+/
        \/ /\ d > p
           /\ CharAt(text, d) = "."
           /\ CharAt(text, d + 1) \in WhitespaceChars
        \* /^\s*\([a-z]\)\s+/
        \/ /\ CharAt(text, p) = "("
           /\ CharAt(text, p + 1) \in Range(LowerChars)
           /\ CharAt(text, p + 2) = ")"
           /\ CharAt(text, p + 3) \in WhitespaceChars
        \* /^\s*[a-z]\)\s+/
        \/ /\ CharAt(text, p) \in Range(LowerChars)
           /\ CharAt(text, p + 1) = ")"
           /\ CharAt(text, p + 2) \in WhitespaceChars

CodeKeywords ==
    {<<"f", "u", "n", "c", "t", "i", "o", "n">>, <<"c", "l", "a", "s", "s">>,
     <<"d", "e", "f">>, <<"v", "a", "r">>, <<"l", "e", "t">>,
     <<"c", "o", "n", "s", "t">>, <<"i", "m", "p", "o", "r", "t">>,
     <<"e", "x", "p", "o", "r", "t">>}

CodePunctuation ==
    {"{", "}", "(", ")", ";"}

IdentifierChars ==
    Range(UpperChars) \cup Range(LowerChars) \cup Range(DigitChars) \cup {"_", "$"}

isCode(text) ==
    LET p == SkipChars(text, 1, WhitespaceChars)
        e == SkipChars(text, p + 1, IdentifierChars)
        f == SkipChars(text, e, WhitespaceChars)
    IN  \* /^\s*(function|class|def|var|let|const|import|export)/
        \/ \E word \in CodeKeywords : StartsWithAt(text, p, word)
        \* /[{}();].*[{}();]/
        \/ \E j, k \in DOMAIN text :
              /\ j < k
              /\ text[j] \in CodePunctuation
              /\ text[k] \in CodePunctuation
              /\ \A m \in (j + 1)..(k - 1) : text[m] \notin {"\n", "\r"}
        \* /^\s*[A-Za-z_$][A-Za-z0-9_$]*\s*[:=]/
        \/ /\ CharAt(text, p) \in IdentifierChars \ Range(DigitChars)
           /\ CharAt(text, f) \in {":", "="}

isQuote(text) ==
    \/ StartsWithAt(text, 1, <<"\"">>)
    \/ Includes(text, <<"\"">>)

\* text.split(sep).length - 1 for a one-character separator
CountChar(text, sep) ==
    Cardinality({k \in DOMAIN text : text[k] = sep})

\* the number of matches of /\s{3,}/ that split finds
CountWideGaps(text) ==
    Cardinality({k \in DOMAIN text :
        /\ text[k] \in WhitespaceChars
        /\ CharAt(text, k - 1) \notin WhitespaceChars
        /\ CharAt(text, k + 1) \in WhitespaceChars
        /\ CharAt(text, k + 2) \in WhitespaceChars})

isTable(text) ==
    \/ CountChar(text, "\t") + 1 > 2
    \/ CountChar(text, "|") + 1 > 2
    \/ CountWideGaps(text) >= 1 /\ CountWideGaps(text) + 1 > 2

isCaption(text) ==
    \/ KeywordThenNumber(text, <<"f", "i", "g", "u", "r", "e">>)
    \/ KeywordThenNumber(text, <<"t", "a", "b", "l", "e">>)
    \/ KeywordThenNumber(text, <<"c", "h", "a", "r", "t">>)
    \/ KeywordThenNumber(text, <<"d", "i", "a", "g", "r", "a", "m">>)
    \* /^Caption:/i
    \/ /\ Len(text) >= 8
       /\ ToLowerCase(SubSeq(text, 1, 8)) = <<"c", "a", "p", "t", "i", "o", "n", ":">>

isFigure(text) ==
    Includes(text, <<"F", "i", "g", "u", "r", "e">>) /\ Len(text) < 100

\* the classifier with the list test moved in front of the heading test
classifyTextRoleListFirst(text) ==
    IF Len(text) < 5 THEN "para"
    ELSE IF isList(text) THEN "list"
    ELSE IF isHeading(text) THEN "heading"
    ELSE IF isCode(text) THEN "code"
    ELSE IF isQuote(text) THEN "quote"
    ELSE IF isTable(text) THEN "table"
    ELSE IF isCaption(text) THEN "caption"
    ELSE IF isFigure(text) THEN "figure"
    ELSE "para"

classifyTextRole(text) ==
    IF Len(text) < 5 THEN "para"
    ELSE IF isHeading(text) THEN "heading"
    ELSE IF isList(text) THEN "list"
    ELSE IF isCode(text) THEN "code"
    ELSE IF isQuote(text) THEN "quote"
    ELSE IF isTable(text) THEN "table"
    ELSE IF isCaption(text) THEN "caption"
    ELSE IF isFigure(text) THEN "figure"
    ELSE "para"

\* how the sample lines begin
LinePrefixes ==
    {<<>>,
     <<"1", ".", " ">>,
     <<"1", "2", " ">>,
     <<"2", ".", "1", " ">>,
     <<"-", " ">>,
     <<"*", " ">>,
     <<BulletChar, " ">>,
     <<"(", "a", ")", " ">>,
     <<"b", ")", " ">>,
     <<"C", "h", "a", "p", "t", "e", "r", " ", "2", " ">>,
     <<"s", "e", "c", "t", "i", "o", "n", " ", "3", " ">>,
     <<"F", "i", "g", "u", "r", "e", " ", "4", " ">>,
     <<"t", "a", "b", "l", "e", " ", "5", " ">>,
     <<"C", "a", "p", "t", "i", "o", "n", ":", " ">>,
     <<"l", "e", "t", " ">>,
     <<"s", "e", "e", " ", "F", "i", "g", "u", "r", "e", " ", "6", " ">>,
     <<"T", "O", "T", "A", "L", " ">>}

\* what follows the beginning of a sample line
LineBodies ==
    {<<"R", "e", "v", "e", "n", "u", "e">>,
     <<"r", "e", "v", "e", "n", "u", "e">>,
     <<"N", "E", "T", " ", "A", "S", "S", "E", "T", "S">>,
     <<"x", " ", "=", " ", "y">>,
     <<"f", "(", "x", ")">>,
     <<"\"", "f", "a", "i", "r", "\"">>,
     <<"a", " ", "|", " ", "b", " ", "|", " ", "c">>,
     <<"a", " ", " ", " ", "b", " ", " ", " ", "c">>,
     <<"a", "\t", "b", "\t", "c">>,
     <<"A">>,
     <<>>}

\* how the sample lines end
LineSuffixes ==
    {<<>>,
     <<".">>,
     <<";">>,
     <<"?">>}

\* the text padded with the letter a to n characters
PadTo(text, n) ==
    text \o [k \in 1..(n - Len(text)) |-> "a"]

\* lines on either side of the 200-character and 100-character tests
LongLines ==
    {PadTo(text, n) :
        text \in {<<"F", "i", "g", "u", "r", "e">>, <<"s", "e", "e", " ", "F", "i", "g", "u", "r", "e">>},
        n \in {99, 100, 200, 201}}

\* the non-empty trimmed lines extractSpansFromText hands to the classifier
SampleLines ==
    ({Trim(p \o b \o s) : p \in LinePrefixes, b \in LineBodies, s \in LineSuffixes}
        \cup LongLines) \ {<<>>}

OneRevenue ==
    <<"1", ".", " ", "R", "e", "v", "e", "n", "u", "e">>

\* const role = classifyTextRole(trimmedLine)
CallClassifyTextRole ==
    /\ line # <<>>
    /\ role = None
    /\ role' = classifyTextRole(line)
    /\ UNCHANGED <<line, extractVars, windowVars, citeVars, validateVars, cmdVars, callVars,
                   runVars, parseVars>>

InitRoles ==
    /\ line \in SampleLines
    /\ role = None
    /\ ExtractIdle /\ WindowIdle /\ CiteIdle /\ ValidateIdle /\ CmdIdle /\ CallIdle /\ RunsIdle /\ ParseIdle

NextRoles ==
    CallClassifyTextRole

SpecRoles ==
    InitRoles /\ [][NextRoles]_vars

\* the order in which the roles are to be tested
RoleOrder ==
    <<"heading", "list", "code", "quote", "table", "caption", "figure">>

RoleMatches(r, text) ==
    CASE r = "heading" -> isHeading(text)
      [] r = "list" -> isList(text)
      [] r = "code" -> isCode(text)
      [] r = "quote" -> isQuote(text)
      [] r = "table" -> isTable(text)
      [] r = "caption" -> isCaption(text)
      [] r = "figure" -> isFigure(text)

\* C19: a classified line shorter than 5 characters is para; a longer one has
\* the role of the first predicate, in the order heading, list, code, quote,
\* table, caption, figure, that matches it, and is para when none matches; the
\* line "1. Revenue" matches the heading and the list predicate and is heading
C19_FirstMatchingRoleInOrder ==
    role # None =>
        /\ Len(line) < 5 => role = "para"
        /\ Len(line) >= 5 =>
            /\ \A k \in DOMAIN RoleOrder :
                  (/\ RoleMatches(RoleOrder[k], line)
                   /\ \A j \in 1..(k - 1) : ~RoleMatches(RoleOrder[j], line))
                  => role = RoleOrder[k]
            /\ (\A k \in DOMAIN RoleOrder : ~RoleMatches(RoleOrder[k], line))
                  => role = "para"
        /\ line = OneRevenue => isHeading(line) /\ isList(line) /\ role = "heading"

\* "1. Revenue", at least 5 characters long and matched by both the heading and
\* the list predicate, has been classified heading
C19_Witness ==
    /\ line = OneRevenue
    /\ Len(line) >= 5
    /\ isHeading(line) /\ isList(line)
    /\ role = "heading"

----------------------------------------------------------------------------
(* Two extraction runs in one process, interleaved at their awaits *)

RunIds ==
    {1, 2}

\* drafts that pass the schema and the gates; two of the definitions share
\* a term slug and two of the formulas share an expression hash
RunDrafts(k) ==
    IF k = "definitions"
    THEN {d \in DefinitionDrafts : d.confidence = 95 /\ d.span_ids # <<>>}
    ELSE {d \in FormulaDrafts : d.confidence = 90 /\ d.span_ids # <<>>}

\* what callClaude hands to a window of a run
RunResponses(k) ==
    {r \in Responses(RunDrafts(k)) : Len(r.drafts) <= 1}

\* the locals of extractDefinitions / extractFormulas at entry to the loop
NewRun(k, docId) ==
    [kind |-> k, documentId |-> docId, numWindows |-> MaxWindows, i |-> 0,
     results |-> <<>>, errors |-> <<>>, seen |-> {}, pc |-> "call",
     answers |-> <<>>]

\* variant: one seen-set for the whole process
SeenByProcess(rs, a) ==
    UNION {rs[b].seen : b \in DOMAIN rs}

\* const seenDefinitions = new Set<string>() / const seenFormulas = new Set<string>():
\* the set a run consults is the one created by its own call
SeenBy(rs, a) ==
    rs[a].seen

\* the filter and the map of one window of a run
RunKept(run, r, seenSet, firstId) ==
    IF run.kind = "definitions"
    THEN LET f == DefinitionFilter(r.drafts, run.documentId, seenSet, <<>>)
         IN  [new |-> StampDefinitions(f.kept, run.documentId, firstId), seen |-> f.seen]
    ELSE LET f == FormulaFilter(r.drafts, run.documentId, seenSet, <<>>)
         IN  [new |-> StampFormulas(f.kept, run.documentId, firstId), seen |-> f.seen]

RunSchema(run) ==
    IF run.kind = "definitions" THEN "DefinitionSchema" ELSE "FormulaSchema"

\* the body of the loop from the resumption after await callClaude to the next
\* await (success) or to the end of the catch (failure)
RunAfterAnswer(run, r, seenSet, firstId) ==
    IF r.status = "throw" \/ ~ParseOk(r, RunSchema(run))
    THEN [run EXCEPT
            !.errors = Append(@, [window |-> run.i + 1,
                                  message |-> IF r.status = "throw" THEN MsgCall
                                              ELSE MsgParse]),
            !.i = @ + 1,
            !.answers = Append(@, r)]
    ELSE LET f == RunKept(run, r, seenSet, firstId)
         IN  [run EXCEPT
                !.results = @ \o f.new,
                !.seen = f.seen,
                !.pc = "delay",
                !.answers = Append(@, r)]

\* await callClaude of some run settles and the run goes on to its next await
RunWindow ==
    \E a \in RunIds :
        /\ runs[a].pc = "call" /\ runs[a].i < runs[a].numWindows
        /\ \E r \in RunResponses(runs[a].kind) :
            LET after == RunAfterAnswer(runs[a], r, SeenBy(runs, a), nextUlid)
            IN  /\ runs' = [runs EXCEPT ![a] = after]
                /\ nextUlid' = nextUlid + (Len(after.results) - Len(runs[a].results))
        /\ UNCHANGED <<extractVars, windowVars, citeVars, validateVars, cmdVars, callVars,
                       roleVars, parseVars>>

\* the rate-limiting timer of some run fires; the loop's i++ follows
RunDelay ==
    \E a \in RunIds :
        /\ runs[a].pc = "delay"
        /\ runs' = [runs EXCEPT ![a].pc = "call", ![a].i = @ + 1]
        /\ UNCHANGED <<nextUlid, extractVars, windowVars, citeVars, validateVars, cmdVars,
                       callVars, roleVars, parseVars>>

\* return { units: results, errors, tokenCount }
RunReturn ==
    \E a \in RunIds :
        /\ runs[a].pc = "call" /\ runs[a].i >= runs[a].numWindows
        /\ runs' = [runs EXCEPT ![a].pc = "done"]
        /\ UNCHANGED <<nextUlid, extractVars, windowVars, citeVars, validateVars, cmdVars,
                       callVars, roleVars, parseVars>>

\* two calls are in progress, for the same document or for two documents
InitRuns ==
    /\ \E k \in {"definitions", "formulas"}, docId \in {"doc1", "doc2"} :
          runs = [a \in RunIds |-> NewRun(k, IF a = 1 THEN "doc1" ELSE docId)]
    /\ nextUlid = 1
    /\ ExtractIdle /\ WindowIdle /\ CiteIdle /\ ValidateIdle /\ CmdIdle /\ CallIdle
    /\ RoleIdle /\ ParseIdle

NextRuns ==
    \/ RunWindow
    \/ RunDelay
    \/ RunReturn

SpecRuns ==
    InitRuns /\ [][NextRuns]_vars

\* the units without the ids that ulid() drew for them
WithoutIds(units) ==
    [k \in DOMAIN units |-> [units[k] EXCEPT !.id = 0]]

\* what a run that is the only one in the process has in results after the
\* model gave the answers, in order
RECURSIVE AloneLoop(_, _, _)
AloneLoop(run, answers, k) ==
    IF k > Len(answers) THEN run
    ELSE LET after == RunAfterAnswer(run, answers[k], run.seen, 0)
         IN  AloneLoop([after EXCEPT !.pc = "call",
                                     !.i = IF after.pc = "delay" THEN @ + 1 ELSE @],
                       answers, k + 1)

Alone(run) ==
    AloneLoop(NewRun(run.kind, run.documentId), run.answers, 1)

\* the dedup keys of the units a run holds
KeysOf(run) ==
    {IF run.kind = "definitions"
     THEN DefinitionDedupKey(run.results[k], run.documentId)
     ELSE FormulaKey(run.results[k], run.documentId) : k \in DOMAIN run.results}

\* C20: whatever the interleaving of two extractDefinitions (or extractFormulas)
\* runs, for one document or for two, each run holds, and at its end returns,
\* the units and the errors it has when it is given the same answers alone
C20_RunsDoNotShareSeenSet ==
    \A a \in DOMAIN runs :
        /\ WithoutIds(runs[a].results) = WithoutIds(Alone(runs[a]).results)
        /\ runs[a].errors = Alone(runs[a]).errors
        /\ runs[a].seen = Alone(runs[a]).seen

\* two runs for the same document overlap: run 1 has recorded a key and waits
\* for its timer before its second window, run 2 has returned, and run 2 kept
\* a unit with a key that run 1 recorded too
C20_Witness ==
    /\ runs # <<>>
    /\ runs[1].documentId = runs[2].documentId
    /\ runs[1].pc = "delay" /\ runs[1].i = 0
    /\ runs[2].pc = "done"
    /\ KeysOf(runs[1]) \cap KeysOf(runs[2]) # {}

----------------------------------------------------------------------------
(* The windowers: candidates, strides and sections *)

\* the window the candidate loop cuts for the span at 0-based index idx
AnchoredWindow(idx) ==
    Slice(wspans, Max(0, idx - 1), Min(Len(wspans), idx + wsize - 1))

\* C21: in definition windowing and in formula windowing alike, every span
\* whose role is heading is a candidate, cue phrase or not, so the windows
\* include the one cut around each heading
C21_EveryHeadingAnchorsWindow ==
    wout.fn \in {"definitions", "formulas"} =>
        \A k \in DOMAIN wspans :
            wspans[k].role = "heading" =>
                \E w \in DOMAIN wout.windows : wout.windows[w] = AnchoredWindow(k - 1)

\* the spans the definition / formula windower takes as candidates
IsCandidate(span) ==
    IF wout.fn = "definitions" THEN IsDefinitionCandidate(span)
    ELSE IsFormulaCandidate(span)

\* C22: for every candidate and every window size >= 1 the definition /
\* formula windower emits a window that starts one span before the candidate
\* (at the candidate when it is the first span), contains the candidate, and
\* holds at most windowSize spans, exactly windowSize when neither the start
\* nor the end of the document cuts it short
C22_CandidateWindowHoldsCandidate ==
    wout.fn \in {"definitions", "formulas"} =>
        \A k \in DOMAIN wspans :
            IsCandidate(wspans[k]) =>
                \E w \in DOMAIN wout.windows :
                    LET window == wout.windows[w]
                    IN  /\ Len(window) >= 1
                        /\ window[1] = wspans[Max(1, k - 1)]
                        /\ \E j \in DOMAIN window : window[j] = wspans[k]
                        /\ Len(window) <= wsize
                        /\ (k >= 2 /\ k - 2 + wsize <= Len(wspans))
                              => Len(window) = wsize

\* C27: createExtractionWindows and createClaimWindows return for every span
\* list and every window size >= 1, also when the stride is not positive
C27_StrideWindowersReturn ==
    wout.fn \in {"functions", "claims"} => wout.returned

\* the 1-based position of the first heading
FirstHeading ==
    CHOOSE k \in DOMAIN wspans :
        /\ wspans[k].role = "heading"
        /\ \A j \in 1..(k - 1) : wspans[j].role # "heading"

\* C28: with at least one heading and a window size >= 2, the function
\* windows cover exactly the spans from the first heading to the end of the
\* document; each window lies inside one heading-to-next-heading section
\* (a heading occurs in a window only as its first span, and the span before
\* the window's first span, if that is no heading, is not left behind by a
\* section start); spans before the first heading are in no window
C28_FunctionWindowsCoverFromFirstHeading ==
    (/\ wout.fn = "functions"
     /\ wsize >= 2
     /\ \E k \in DOMAIN wspans : wspans[k].role = "heading") =>
        /\ wout.returned
        /\ {Flatten(wout.windows)[j].id : j \in DOMAIN Flatten(wout.windows)}
              = FirstHeading..Len(wspans)
        /\ \A w \in DOMAIN wout.windows :
              LET window == wout.windows[w]
              IN  /\ Len(window) >= 1
                  /\ \A j \in DOMAIN window :
                        /\ window[j] = wspans[window[1].id + j - 1]
                        /\ j > 1 => window[j].role # "heading"

\* a section longer than the window was cut into overlapping windows, and a
\* span precedes the first heading
C28_Witness ==
    /\ wout.fn = "functions" /\ wsize = 2 /\ wout.returned
    /\ Len(wspans) = 4
    /\ wspans[1].role # "heading" /\ wspans[2].role = "heading"
    /\ wspans[3].role # "heading" /\ wspans[4].role # "heading"
    /\ Len(wout.windows) >= 2

----------------------------------------------------------------------------
(* The seen-set and the quality gates *)

\* the dedup key of a unit or draft of the run in progress
RunKey(d) ==
    IF kind = "definitions" THEN DefinitionDedupKey(d, documentId)
    ELSE FormulaKey(d, documentId)

RunGates(d) ==
    IF kind = "definitions" THEN DefinitionGates(d) ELSE FormulaGates(d)

\* C23: in a definitions or formulas run a draft that a quality gate rejects
\* leaves no key in the seen-set, so a later draft with the same key that
\* passes the gates is accepted: the seen-set holds exactly the keys of the
\* units accumulated so far, one key a unit
C23_SeenSetHoldsKeysOfKeptUnits ==
    kind \in {"definitions", "formulas"} =>
        /\ seen = {RunKey(results[k]) : k \in DOMAIN results}
        /\ Cardinality(seen) = Len(results)

\* the model's answer held a draft below the confidence threshold and, after
\* it, a draft with the same key that passes the gates; the second was kept
C23_Witness ==
    /\ kind \in {"definitions", "formulas"}
    /\ pc = "delay"
    /\ Len(response.drafts) = 2
    /\ ~RunGates(response.drafts[1])
    /\ RunGates(response.drafts[2])
    /\ RunKey(response.drafts[1]) = RunKey(response.drafts[2])
    /\ Len(results) >= 1
    /\ results[Len(results)].confidence = response.drafts[2].confidence
    /\ RunKey(results[Len(results)]) = RunKey(response.drafts[2])

----------------------------------------------------------------------------
(* enrichDefinition applied to drafts that name the finance keywords *)

FinancialKeywords ==
    {KwProfit, KwMargin, KwRatio, KwReturn, KwRevenue, KwIncome, KwAsset}

\* the keyword with a capital first letter
Capitalized(kw) ==
    <<UpperChars[CHOOSE k \in DOMAIN LowerChars : LowerChars[k] = kw[1]]>> \o Tail(kw)

\* drafts whose term or definition is one keyword, or holds none, with and
\* without the tag set by the model
TagDrafts ==
    {[term |-> t, definition |-> d, aliases |-> <<>>, span_ids |-> <<"s1">>,
      confidence |-> 90, tags |-> tg] :
        t \in {Capitalized(kw) : kw \in FinancialKeywords} \cup {TextPlain},
        d \in FinancialKeywords \cup {TextSum},
        tg \in {<<>>, <<TagFinancialMetrics>>}}

\* .map(def => enrichDefinition(def, spans[0].documentId))
CallEnrichDefinition ==
    /\ enriched = <<>>
    /\ defn # NoDefinition
    /\ enriched' = <<enrichDefinition(defn, "doc1", 1)>>
    /\ UNCHANGED <<pdfText, pageCount, blocks, merged, ppc>>
    /\ UNCHANGED <<extractVars, windowVars, citeVars, validateVars, cmdVars, callVars,
                   roleVars, runVars>>

InitTags ==
    /\ defn \in TagDrafts
    /\ func = NoFunctionDoc /\ claim = NoClaim /\ vout = NoValidation
    /\ ExtractIdle /\ WindowIdle /\ CiteIdle /\ CmdIdle /\ CallIdle /\ RoleIdle
    /\ RunsIdle /\ ParseIdle

NextTags ==
    CallEnrichDefinition

SpecTags ==
    InitTags /\ [][NextTags]_vars

\* the lower-cased term or the lower-cased definition holds a finance keyword
NamesFinancialKeyword(def) ==
    \E kw \in FinancialKeywords :
        \/ Includes(ToLowerCase(def.term), kw)
        \/ Includes(ToLowerCase(def.definition), kw)

CountTag(tags, tag) ==
    Cardinality({k \in DOMAIN tags : tags[k] = tag})

\* C24: enrichDefinition appends "financial-metrics" exactly when the
\* lower-cased term or the lower-cased definition holds one of profit, margin,
\* ratio, return, revenue, income, asset, each keyword looked for in both
\* fields, and never appends the tag when the draft carries it already
C24_FinancialTagForEveryKeyword ==
    enriched # <<>> =>
        /\ CountTag(defn.tags, TagFinancialMetrics) = 0 =>
              (CountTag(enriched[1].tags, TagFinancialMetrics) = 1
                  <=> NamesFinancialKeyword(defn))
        /\ CountTag(defn.tags, TagFinancialMetrics) = 1 =>
              CountTag(enriched[1].tags, TagFinancialMetrics) = 1

----------------------------------------------------------------------------
(* parsePDF: normalizeWhitespace, extractSpansFromText, mergeParagraphs *)

MaxTextLen ==
    5

MaxBlocks ==
    4

\* text.replace(/\r\n/g, '\n')
RECURSIVE ReplaceCrLf(_)
ReplaceCrLf(s) ==
    IF s = <<>> THEN <<>>
    ELSE IF Len(s) >= 2 /\ s[1] = "\r" /\ s[2] = "\n"
         THEN <<"\n">> \o ReplaceCrLf(SubSeq(s, 3, Len(s)))
         ELSE <<Head(s)>> \o ReplaceCrLf(Tail(s))

\* text.replace(from, to) for single characters, every occurrence
ReplaceChar(s, from, to) ==
    [k \in DOMAIN s |-> IF s[k] = from THEN to ELSE s[k]]

\* text.replace(/ +/g, ' ')
RECURSIVE CollapseSpaces(_)
CollapseSpaces(s) ==
    IF s = <<>> THEN <<>>
    ELSE IF Len(s) >= 2 /\ s[1] = " " /\ s[2] = " "
         THEN CollapseSpaces(Tail(s))
         ELSE <<Head(s)>> \o CollapseSpaces(Tail(s))

normalizeWhitespace(s) ==
    Trim(CollapseSpaces(ReplaceChar(ReplaceChar(ReplaceCrLf(s), "\r", "\n"), "\t", " ")))

\* text.split('\n')
RECURSIVE SplitLines(_, _)
SplitLines(s, cur) ==
    IF s = <<>> THEN <<cur>>
    ELSE IF Head(s) = "\n" THEN <<cur>> \o SplitLines(Tail(s), <<>>)
    ELSE SplitLines(Tail(s), Append(cur, Head(s)))

IsNotBlankLine(ln) ==
    Trim(ln) # <<>>

\* Math.ceil(a / b) for b > 0
CeilDiv(a, b) ==
    (a + b - 1) \div b

\* the for loop of extractSpansFromText from line k on
RECURSIVE SpanLoop(_, _, _, _, _)
SpanLoop(lns, linesPerPage, k, currentOffset, acc) ==
    IF k > Len(lns) THEN acc
    ELSE LET trimmedLine == Trim(lns[k])
             span == [id |-> k, role |-> classifyTextRole(trimmedLine),
                      text |-> trimmedLine,
                      page |-> ((k - 1) \div linesPerPage) + 1,
                      start |-> currentOffset,
                      end |-> currentOffset + Len(trimmedLine)]
         IN  SpanLoop(lns, linesPerPage, k + 1, currentOffset + Len(lns[k]) + 1,
                      Append(acc, span))

extractSpansFromText(s, pages) ==
    LET lns == SelectSeq(SplitLines(s, <<>>), IsNotBlankLine)
    IN  IF lns = <<>> THEN <<>>
        ELSE SpanLoop(lns, CeilDiv(Len(lns), pages), 1, 0, <<>>)

\* span.role === 'para' && current?.role === 'para' && span.page === current.page
\* && span.start - current.end < 50
MergesInto(current, span) ==
    /\ span.role = "para" /\ current.role = "para"
    /\ span.page = current.page
    /\ span.start - current.end < 50

\* variant: the end of the merged span is not moved to the end of the last span
RECURSIVE MergeLoopKeepsEnd(_, _, _)
MergeLoopKeepsEnd(list, current, acc) ==
    IF list = <<>> THEN acc \o current
    ELSE LET span == Head(list)
         IN  IF current # <<>> /\ MergesInto(current[1], span)
             THEN MergeLoopKeepsEnd(Tail(list),
                      <<[current[1] EXCEPT !.text = @ \o <<" ">> \o span.text]>>, acc)
             ELSE MergeLoopKeepsEnd(Tail(list), <<span>>, acc \o current)

\* the for loop of mergeParagraphs; current is empty (null) or holds one span
RECURSIVE MergeLoop(_, _, _)
MergeLoop(list, current, acc) ==
    IF list = <<>> THEN acc \o current
    ELSE LET span == Head(list)
         IN  IF current # <<>> /\ MergesInto(current[1], span)
             THEN MergeLoop(Tail(list),
                      <<[current[1] EXCEPT !.text = @ \o <<" ">> \o span.text,
                                           !.end = span.end]>>, acc)
             ELSE MergeLoop(Tail(list), <<span>>, acc \o current)

mergeParagraphs(list) ==
    MergeLoop(list, <<>>, <<>>)

\* role, page and distance from the end of the span before, on either side of
\* the 50-character threshold
BlockShapes ==
    [role : {"para", "heading"}, page : {1, 2}, gap : {49, 50}]

BlockTexts ==
    <<(<<"a">>), <<"b", "c">>, <<"d">>, <<"e", "f">>>>

RECURSIVE BlocksOf(_, _, _, _)
BlocksOf(shapes, k, from, acc) ==
    IF k > Len(shapes) THEN acc
    ELSE LET s == from + shapes[k].gap
         IN  BlocksOf(shapes, k + 1, s + Len(BlockTexts[k]),
                      Append(acc, [id |-> k, role |-> shapes[k].role,
                                   text |-> BlockTexts[k], page |-> shapes[k].page,
                                   start |-> s, end |-> s + Len(BlockTexts[k])]))

BlockLists ==
    {BlocksOf(shapes, 1, 0, <<>>) : shapes \in SeqsUpTo(BlockShapes, MaxBlocks)}

PdfChars ==
    {"a", " ", "\n", "\t", "\r"}

PdfTexts ==
    SeqsUpTo(PdfChars, MaxTextLen)

\* const text = normalizeWhitespace(pdfData.text);
\* const spans = extractSpansFromText(text, pdfData.numpages)
ExtractSpans ==
    /\ ppc = "text"
    /\ blocks' = extractSpansFromText(normalizeWhitespace(pdfText), pageCount)
    /\ ppc' = "spans"
    /\ UNCHANGED <<enriched, pdfText, pageCount, merged>>
    /\ UNCHANGED <<extractVars, windowVars, citeVars, validateVars, cmdVars, callVars,
                   roleVars, runVars>>

\* return { spans: mergeParagraphs(spans), pageCount }
CallMergeParagraphs ==
    /\ ppc = "spans"
    /\ merged' = mergeParagraphs(blocks)
    /\ ppc' = "merged"
    /\ UNCHANGED <<enriched, pdfText, pageCount, blocks>>
    /\ UNCHANGED <<extractVars, windowVars, citeVars, validateVars, cmdVars, callVars,
                   roleVars, runVars>>

OthersIdle ==
    /\ ExtractIdle /\ WindowIdle /\ CiteIdle /\ ValidateIdle /\ CmdIdle /\ CallIdle
    /\ RoleIdle /\ RunsIdle

\* the span list handed to mergeParagraphs
InitMerge ==
    /\ blocks \in BlockLists
    /\ merged = <<>> /\ ppc = "spans"
    /\ enriched = <<>> /\ pdfText = <<>> /\ pageCount = 2
    /\ OthersIdle

NextMerge ==
    CallMergeParagraphs

SpecMerge ==
    InitMerge /\ [][NextMerge]_vars

\* pdf-parse has returned the flat text and the number of pages
InitParse ==
    /\ pdfText \in PdfTexts
    /\ pageCount \in {1, 2}
    /\ blocks = <<>> /\ merged = <<>> /\ ppc = "text"
    /\ enriched = <<>>
    /\ OthersIdle

NextParse ==
    \/ ExtractSpans
    \/ CallMergeParagraphs

SpecParse ==
    InitParse /\ [][NextParse]_vars

\* the fields the claims speak of
CoreOf(list) ==
    [k \in DOMAIN list |->
        [role |-> list[k].role, page |-> list[k].page, text |-> list[k].text,
         start |-> list[k].start, end |-> list[k].end]]

RECURSIVE JoinTexts(_, _, _)
JoinTexts(list, a, b) ==
    IF a = b THEN list[a].text
    ELSE list[a].text \o <<" ">> \o JoinTexts(list, a + 1, b)

\* the output spans from k on are made of consecutive runs of the input spans
\* from a on: start of the first, end of the last, texts joined by one space
RECURSIVE MadeOfRuns(_, _)
MadeOfRuns(k, a) ==
    IF k > Len(merged) THEN a = Len(blocks) + 1
    ELSE \E b \in a..Len(blocks) :
            /\ merged[k].start = blocks[a].start
            /\ merged[k].end = blocks[b].end
            /\ merged[k].text = JoinTexts(blocks, a, b)
            /\ merged[k].role = blocks[a].role
            /\ merged[k].page = blocks[a].page
            /\ MadeOfRuns(k + 1, b + 1)

\* C25: in the output of mergeParagraphs no two adjacent spans are both para,
\* on one page, less than 50 characters apart; merging the output again changes
\* no role, page, text, start or end; each output span has the start of its
\* first input span, the end of its last, and their texts joined by one space
C25_MergeIsMaximal ==
    ppc = "merged" =>
        /\ \A k \in 1..(Len(merged) - 1) : ~MergesInto(merged[k], merged[k + 1])
        /\ CoreOf(mergeParagraphs(merged)) = CoreOf(merged)
        /\ MadeOfRuns(1, 1)

\* three paragraphs in a row were merged into one span, followed by a
\* paragraph that stayed apart
C25_Witness ==
    /\ ppc = "merged"
    /\ Len(blocks) = 4 /\ Len(merged) = 2
    /\ merged[1].text = JoinTexts(blocks, 1, 3)
    /\ merged[2].role = "para" /\ merged[2].page = merged[1].page

\* the normalized document text
NormalizedText ==
    normalizeWhitespace(pdfText)

\* C26: before merging, every span of the PDF parser has start and end such
\* that the characters [start, end) of the normalized text are the span's
\* text, blank lines and leading whitespace included; the spans are strictly
\* ordered by start and do not overlap
C26_OffsetsAddressNormalizedText ==
    ppc = "spans" =>
        /\ \A k \in DOMAIN blocks :
              /\ blocks[k].end <= Len(NormalizedText)
              /\ SubSeq(NormalizedText, blocks[k].start + 1, blocks[k].end)
                    = blocks[k].text
        /\ \A k \in 1..(Len(blocks) - 1) :
              /\ blocks[k].start < blocks[k + 1].start
              /\ blocks[k].end <= blocks[k + 1].start

----------------------------------------------------------------------------
(* Repeated load runs over the same draft files *)

\* the number of rows of a table that hold the unit
CountStored(rows, unit) ==
    Cardinality({k \in DOMAIN rows : rows[k].unit = unit})

\* the number of lines of a draft file that hold the unit
CountLines(lines, unit) ==
    Cardinality({k \in DOMAIN lines : lines[k] = unit})

\* C29: after any number of load runs over the same draft files, a unit is
\* stored in its table as often as it stands in its draft file and no more:
\* a second load run does not insert a unit that is already stored.
C29_LoadStoresEachDraftUnitOnce ==
    \A t \in DOMAIN db : \A k \in DOMAIN db[t] :
        CountStored(db[t], db[t][k].unit) <= CountLines(draftFiles[t], db[t][k].unit)

----------------------------------------------------------------------------
(* The ingest, extract and load commands on one document *)

MaxStoreCommands ==
    4

\* ids that uuid_generate_v4() may hand out for the rows of the spans table
SpanIdPool ==
    {"s1", "s2", "s3", "s4", "s5", "s6"}

\* the number of spans the parser finds in the document
ParsedSpanCounts ==
    {1, 2}

\* the span ids a list of draft units or of stored rows cites
CitedBy(units) ==
    UNION {{units[k].span_ids[j] : j \in DOMAIN units[k].span_ids} : k \in DOMAIN units}

CitedByRows(rows) ==
    UNION {{rows[k].unit.span_ids[j] : j \in DOMAIN rows[k].unit.span_ids} : k \in DOMAIN rows}

\* an id the database generates is none of the ids that exist anywhere
FreshSpanIds(n) ==
    LET used == storedSpans
                \cup UNION {CitedBy(draftFiles[t]) : t \in DOMAIN draftFiles}
                \cup UNION {CitedByRows(db[t]) : t \in DOMAIN db}
    IN  {ids \in SUBSET (SpanIdPool \ used) : Cardinality(ids) = n}

\* the units the model returns when it cites a span of its context
FunctionCiting(id) ==
    [name |-> <<"f">>, purpose |-> <<"p">>, steps |-> <<[n |-> 1, text |-> <<"x">>]>>,
     preconditions |-> <<>>, failure_modes |-> <<>>, span_ids |-> <<id>>, confidence |-> 90]

ClaimCiting(id) ==
    [subject |-> <<"a">>, predicate |-> <<"i", "s">>, object |-> <<"o">>,
     span_ids |-> <<id>>, confidence |-> 90]

DefinitionCiting(id) ==
    [term |-> <<"R">>, definition |-> <<"a", " ", "s", "u", "m">>, aliases |-> <<>>,
     span_ids |-> <<id>>, confidence |-> 90]

UnitsCiting(id) ==
    [functions |-> <<FunctionCiting(id)>>, claims |-> <<ClaimCiting(id)>>,
     definitions |-> <<DefinitionCiting(id)>>]

\* extractCommand: a file is written for each requested type that has units
ExtractFilesFrom(files, units, unitTypes) ==
    [t \in DOMAIN files |->
        IF t \in unitTypes /\ Len(units[t]) > 0 THEN units[t] ELSE files[t]]

\* ingestCommand: insertDocument fails on the uri of a document that exists;
\* with --force the spans of the document are deleted and the parsed spans
\* inserted under new ids, without --force the command exits. The document
\* exists when it has spans: the parser finds at least one span.
IngestCommand ==
    /\ ncmds < MaxStoreCommands
    /\ \E force \in BOOLEAN, n \in ParsedSpanCounts :
          IF storedSpans = {} \/ force
          THEN storedSpans' \in FreshSpanIds(n)
          ELSE UNCHANGED storedSpans
    /\ ncmds' = ncmds + 1
    /\ UNCHANGED <<extracted, draftFiles, db, report>>
    /\ UNCHANGED <<extractVars, windowVars, citeVars, validateVars, callVars, roleVars, runVars, parseVars>>

\* extractCommand on spans read with getSpans; the units cite one of them
ExtractFromContext ==
    /\ ncmds < MaxStoreCommands
    /\ IF storedSpans = {}
       THEN UNCHANGED <<extracted, draftFiles>>
       ELSE \E id \in storedSpans,
               unitTypes \in (SUBSET {"functions", "claims", "definitions"}) \ {{}} :
               /\ extracted' = UnitsCiting(id)
               /\ draftFiles' = ExtractFilesFrom(draftFiles, UnitsCiting(id), unitTypes)
    /\ ncmds' = ncmds + 1
    /\ UNCHANGED <<storedSpans, db, report>>
    /\ UNCHANGED <<extractVars, windowVars, citeVars, validateVars, callVars, roleVars, runVars, parseVars>>

\* loadCommand on the draft files of the document
LoadDrafts ==
    /\ ncmds < MaxStoreCommands
    /\ db' = LoadTables(db, draftFiles, "doc1")
    /\ ncmds' = ncmds + 1
    /\ UNCHANGED <<storedSpans, extracted, draftFiles, report>>
    /\ UNCHANGED <<extractVars, windowVars, citeVars, validateVars, callVars, roleVars, runVars, parseVars>>

InitStore ==
    /\ CmdIdle
    /\ ExtractIdle /\ WindowIdle /\ CiteIdle /\ ValidateIdle /\ CallIdle /\ RoleIdle /\ RunsIdle /\ ParseIdle

NextStore ==
    \/ IngestCommand
    \/ ExtractFromContext
    \/ LoadDrafts

SpecStore ==
    InitStore /\ [][NextStore]_vars

\* C30: whatever ingest, ingest --force, extract and load commands have run,
\* with the model citing only spans of its context, every span id of every
\* stored unit is the id of a span that is stored for the document now.
C30_StoredUnitsCiteStoredSpans ==
    \A t \in DOMAIN db : CitedByRows(db[t]) \subseteq storedSpans

====
